---- MODULE Spec2Model ----
(***************************************************************************)
(* Model of the Dify knowledge-base / app migration tool:                  *)
(*   - DifyClient._make_request    (retry on 500, TLS fallback)            *)
(*   - DifyClient.get_all_*        (pagination loops)                      *)
(*   - DifyMigration               (streaming / batch orchestration)       *)
(*   - migrate_all_with_apps       (the two pipelines run as threads)      *)
(*   - logging                     (module loggers, ThreadSafeLogger)      *)
(* Delays are in milliseconds.                                             *)
(***************************************************************************)
EXTENDS Integers, Sequences, FiniteSets, TLC

VARIABLES
    \* ---- DifyClient._make_request ----
    rq_pc,        \* "idle" | "attempt" | "fallback" | "returned" | "raised"
    max_retries,  \* argument of the current call
    attempt,      \* loop variable of the retry loop
    last_error,   \* last_error local ("none" or the response kept)
    reqlog,       \* requests sent by the current call: [verify, resp]
    sleeps,       \* time.sleep calls of the current call: [why, ms]
    raised,       \* [err, via] of the exception leaving the call, or NoError
    calls,        \* number of _make_request calls begun
    \* ---- DifyClient.get_all_datasets / get_all_documents / get_all_apps ----
    pg_pc,        \* "idle" | "loop" | "returned" | "raised"
    collection,   \* "datasets" | "documents" | "apps"
    server,       \* the server's pages: [n items, has_more flag] per page
    page,         \* page local of the loop
    all_items,    \* all_datasets / all_documents / all_apps
    requested,    \* page numbers requested so far
    pg_token,     \* console_access_token of the listing client (apps)
    \* ---- DifyMigration: arguments of a run, the instances ----
    skip_existing, auto_create, streaming,
    kind,           \* "datasets" (migrate_all) | "apps" (migrate_all_apps)
    run,            \* number of runs started
    prev_clean,     \* the previous run had no failed request and failed = 0
    tgt0,           \* names in the target when the current run started
    src_objects,    \* per source client, the names it lists (Unknown until listed)
    tgt_objects,    \* target instance: number of datasets / apps per name
    pattern,        \* which requests fail: any (free), or the exports at fixed places
    saved,          \* summary and target a streaming run ended with, kept to compare
    \* ---- DifyMigration: _migrate_streaming / _migrate_batch and the app twins ----
    mg_pc,
    counts,         \* total_count, success_count, skipped_count, failed_count
    existing_names, \* existing_names of the streaming orchestrators
    source_idx,     \* source_idx: the source client being processed
    obj_idx,        \* position in all_objects / exported_data
    all_objects,    \* all_datasets / all_apps of the current source
    export_data,    \* the export unit being imported: [name, docs]
    exported_data,  \* export_all_datasets' / export_all_apps' result (batch)
    idx,            \* idx of import_dataset's document loop
    observed,       \* names a target listing of this run has shown to exist
    created,        \* create_dataset / import_app_dsl requests of this run, per name
    wrote,          \* names a write request of this run was issued for
    clean,          \* no request of this run has failed
    obj_calls,      \* requests made for the current object: [tgt, writes, src],
                    \* and whether its export file has been written: stored
    last,           \* the object just finished: [name, counted, why, tgt, writes]
    \* ---- DifyMigration.import_dataset / _import_document ----
    new_dataset_id, \* new_dataset_id: the target dataset the documents go to
    success_count,  \* success_count of import_dataset's document loop
    last_doc,       \* the document _import_document was last called for
    \* ---- DifyMigration.migrate_all_with_apps ----
    par_pc,         \* position of the calling thread
    args,           \* [skip_existing, parallel, migrate_datasets, migrate_apps]
    console_ok,       \* the console accepts the configured email / password
    fail_mode,      \* per pipeline: "none", "any" or "all" of its requests fail
    th_pc,          \* per pipeline: position of run_kb_migration / run_workflow_migration
    th_counts,      \* per pipeline: the four counters of its orchestrator
    th_existing,    \* per pipeline: existing_names of its orchestrator
    th_source_idx,  \* per pipeline: source_idx of its orchestrator
    th_obj_idx,     \* per pipeline: position in the current source's listing
    th_target,      \* target instance: dataset names (kb) and app names (wf)
    console_token,  \* console_access_token of every DifyClient object
    kb_error, workflow_error,
    report,         \* the two result lines logged after the join
    uses,           \* per pipeline: the DifyClient objects it has called
    acc,            \* per variable: the threads that read / wrote it
    \* ---- logging: the module loggers, ThreadSafeLogger, the two handlers ----
    lg_pc,          \* per thread: "idle" | "handle" | "emit"
    lg_via,         \* per thread: the logger object its current call goes through
    lg_h,           \* per thread: position in the list of handlers
    lg_count,       \* per thread: lines logged so far
    inst_lock,      \* per ThreadSafeLogger instance: the holder of self._lock
    h_lock,         \* per handler: the holder of the handler's own lock
    \* ---- one DifyClient and its console session ----
    cs_pc,          \* "idle" | "login" | "call": position in the console operation
    cs_op,          \* the console operation requested last
    has_credentials,        \* config.email and config.password are both set
    console_access_token,   \* 0 is None, n the token granted during operation n
    token_found,    \* console_access_token as the operation found it
    cs_sent,        \* the requests the operation has sent, with their responses
    cs_result,      \* how the operation ended
    cs_ops          \* console operations requested so far

reqVars == <<rq_pc, max_retries, attempt, last_error, reqlog, sleeps, raised, calls>>
pageVars == <<pg_pc, collection, server, page, all_items, requested, pg_token>>

docVars == <<new_dataset_id, success_count, last_doc>>

\* fixed during a run
runArgs == <<skip_existing, auto_create, streaming, kind, run, prev_clean, tgt0,
             pattern, saved>>
mgVars == <<runArgs, src_objects, tgt_objects, mg_pc, counts, existing_names,
            source_idx, obj_idx, all_objects, export_data, exported_data, idx,
            observed, created, wrote, clean, obj_calls, last, docVars>>

parVars == <<par_pc, args, console_ok, fail_mode, th_pc, th_counts,
             th_existing, th_source_idx, th_obj_idx, th_target, console_token,
             kb_error, workflow_error, report, uses, acc>>

logVars == <<lg_pc, lg_via, lg_h, lg_count, inst_lock, h_lock>>

consoleVars == <<cs_pc, cs_op, has_credentials, console_access_token, token_found,
                 cs_sent, cs_result, cs_ops>>

vars == <<reqVars, pageVars, mgVars, parVars, logVars, consoleVars>>

\* what the actions of one component leave alone
notReq == <<pageVars, mgVars, parVars, logVars, consoleVars>>
notPage == <<reqVars, mgVars, parVars, logVars, consoleVars>>
notMg == <<reqVars, pageVars, parVars, logVars, consoleVars>>
notPar == <<reqVars, pageVars, mgVars, logVars, consoleVars>>
notLog == <<reqVars, pageVars, mgVars, parVars, consoleVars>>
notConsole == <<reqVars, pageVars, mgVars, parVars, logVars>>

-----------------------------------------------------------------------------
(* Bounds *)
MaxRetriesArg == 3      \* max_retries arguments explored: 0..MaxRetriesArg
MaxCalls == 2           \* _make_request calls per behaviour
MaxPages == 3           \* pages a listing has
MaxPageItems == 1       \* items on one page: 0..MaxPageItems
NumSources == 1         \* source instances of a migration
MaxObjects == 2         \* objects listed by all sources together
MaxDocs == 1            \* documents of one dataset
MaxRuns == 2            \* runs of the same migration in a row
ParSources == 1         \* source clients of a run with both pipelines
ParObjects == 2         \* objects each of those sources lists, per pipeline
MaxLines == 2           \* lines each thread logs
MaxOps == 3             \* console operations requested of one client
MaxSegments == 2        \* segments of one document
MaxFiles == 2           \* dataset_*.json files in the export directory

(* Program constants *)
MAX_RETRIES == 3
RETRY_DELAY == 2000
RATE_LIMIT_DELAY == 500

-----------------------------------------------------------------------------
(* DifyClient._make_request                                                *)

\* What one requests.request(...) + raise_for_status() can produce.
Responses == {"ok", "ssl", "conn", "h500", "h502", "h503", "h404"}
HTTPErrors == {"h500", "h502", "h503", "h404"}

StatusCode(r) ==
    CASE r = "h500" -> 500
      [] r = "h502" -> 502
      [] r = "h503" -> 503
      [] r = "h404" -> 404
      [] OTHER -> 200

\* An exception on its way to the caller: which response it is the error of,
\* where it was raised, and the attempt count attached to it (the code
\* attaches none: the exception object is re-raised as requests built it).
NoError == [err |-> "none", via |-> "none", attempts |-> 0]

RECURSIVE Pow2(_)
Pow2(n) == IF n = 0 THEN 1 ELSE 2 * Pow2(n - 1)

WaitTime_Linear(retry_delay, att) == retry_delay * (att + 1)

\* wait_time = retry_delay * (2 ** attempt)
WaitTime(retry_delay, att) == retry_delay * Pow2(att)

ShouldRetry_OffByOne(status_code, att, maxr) == status_code = 500 /\ att < maxr - 1
ShouldRetry_Any5xx(status_code, att, maxr) == status_code >= 500 /\ att < maxr

\* if status_code == 500 and attempt < max_retries
ShouldRetry(status_code, att, maxr) == status_code = 500 /\ att < maxr

LoopContinues_OneLess(att, maxr) == att + 1 < maxr

\* for attempt in range(max_retries + 1): is there another iteration
LoopContinues(att, maxr) == att + 1 < maxr + 1

AfterFallback_Retry500(r) ==
    IF r = "ok" THEN "returned" ELSE IF r = "h500" THEN "attempt" ELSE "raised"

\* The inner try of the SSLError handler: return the response, or log
\* "Retry failed" and re-raise whatever RequestException came back.
AfterFallback(r) == IF r = "ok" THEN "returned" ELSE "raised"

\* A new call: url/headers set up, attempt = 0, last_error = None.
MakeRequest ==
    /\ rq_pc \in {"idle", "returned", "raised"}
    /\ calls < MaxCalls
    /\ \E m \in 0..MaxRetriesArg : max_retries' = m
    /\ rq_pc' = "attempt"
    /\ attempt' = 0
    /\ last_error' = "none"
    /\ reqlog' = <<>>
    /\ sleeps' = <<>>
    /\ raised' = NoError
    /\ calls' = calls + 1
    /\ UNCHANGED notReq

VerifyOnAttempt_FirstOnly(att) == att = 0

\* `verify=True` of the request inside the retry loop, whatever the attempt
VerifyOnAttempt(att) == TRUE

\* One iteration of the retry loop: the request with verify=True and the
\* handler its outcome selects.
SendVerified ==
    /\ rq_pc = "attempt"
    /\ \E r \in Responses :
        /\ reqlog' = Append(reqlog, [verify |-> VerifyOnAttempt(attempt), resp |-> r])
        /\ CASE r = "ok" ->
                  /\ sleeps' = Append(sleeps, [why |-> "rate", ms |-> RATE_LIMIT_DELAY])
                  /\ rq_pc' = "returned"
                  /\ UNCHANGED <<attempt, last_error, raised>>
             [] r = "ssl" ->
                  /\ rq_pc' = "fallback"
                  /\ UNCHANGED <<attempt, last_error, raised, sleeps>>
             [] r \in HTTPErrors ->
                  IF ShouldRetry(StatusCode(r), attempt, max_retries)
                  THEN /\ sleeps' = Append(sleeps,
                                [why |-> "backoff", ms |-> WaitTime(RETRY_DELAY, attempt)])
                       /\ last_error' = r
                       /\ attempt' = attempt + 1
                       /\ IF LoopContinues(attempt, max_retries)
                          THEN /\ rq_pc' = "attempt"
                               /\ UNCHANGED raised
                          ELSE \* code after the loop: raise last_error
                               /\ rq_pc' = "raised"
                               /\ raised' = [err |-> r, via |-> "exhausted", attempts |-> 0]
                  ELSE /\ rq_pc' = "raised"
                       /\ raised' = [err |-> r, via |-> "loop", attempts |-> 0]
                       /\ UNCHANGED <<attempt, last_error, sleeps>>
             [] OTHER ->  \* any other RequestException
                  /\ rq_pc' = "raised"
                  /\ raised' = [err |-> r, via |-> "loop", attempts |-> 0]
                  /\ UNCHANGED <<attempt, last_error, sleeps>>
    /\ UNCHANGED <<max_retries, calls>>
    /\ UNCHANGED notReq

\* The except SSLError handler: one request with verify=False.
SendFallback ==
    /\ rq_pc = "fallback"
    /\ \E r \in Responses :
        /\ reqlog' = Append(reqlog, [verify |-> FALSE, resp |-> r])
        /\ rq_pc' = AfterFallback(r)
        /\ sleeps' = IF r = "ok"
                     THEN Append(sleeps, [why |-> "rate", ms |-> RATE_LIMIT_DELAY])
                     ELSE sleeps
        /\ raised' = IF rq_pc' = "raised"
                     THEN [err |-> r, via |-> "fallback", attempts |-> 0]
                     ELSE raised
    /\ UNCHANGED <<max_retries, attempt, last_error, calls>>
    /\ UNCHANGED notReq

ReqIdle ==
    /\ rq_pc = "idle"
    /\ max_retries = MAX_RETRIES
    /\ attempt = 0
    /\ last_error = "none"
    /\ reqlog = <<>>
    /\ sleeps = <<>>
    /\ raised = NoError
    /\ calls = 0

-----------------------------------------------------------------------------
(* DifyClient.get_all_datasets, get_all_documents, get_all_apps            *)

Flags == {"true", "false", "missing"}
PageShapes == [n : 0..MaxPageItems, has_more : Flags]

\* The items of page p, all distinct: item i of page p is <<p, i>>.
PageData(p, n) == [i \in 1..n |-> <<p, i>>]

\* The response to list_*(page=p); past the last page the server answers an
\* empty page that says there is no more.
ServerPage(p) ==
    IF p \in 1..Len(server)
    THEN [data |-> PageData(p, server[p].n), has_more |-> server[p].has_more]
    ELSE [data |-> <<>>, has_more |-> "false"]

HasMore_UnlessFalse(response) == response.has_more # "false"

\* response.get('has_more', False)
HasMore(response) == response.has_more = "true"

Extend_Replace(all, data) == data

\* all_datasets.extend(datasets)
Extend(all, data) == all \o data

NextPage_Skip(p) == p + 2

\* page += 1
NextPage(p) == p + 1

\* all_xxx = [], page = 1
GetAll ==
    /\ pg_pc = "idle"
    /\ pg_pc' = "loop"
    /\ page' = 1
    /\ all_items' = <<>>
    /\ UNCHANGED <<collection, server, requested, pg_token>>
    /\ UNCHANGED notPage

\* One iteration of `while True`: list_*(page), extend, test has_more.
\* list_apps logs in first when the client holds no console token.
ListPage ==
    /\ pg_pc = "loop"
    /\ \E login_ok \in BOOLEAN, ok \in BOOLEAN :
        LET need_login == collection = "apps" /\ ~pg_token
            response == ServerPage(page)
        IN  IF need_login /\ ~login_ok
            THEN /\ pg_pc' = "raised"
                 /\ UNCHANGED <<page, all_items, requested, pg_token>>
            ELSE /\ pg_token' = (pg_token \/ need_login)
                 /\ requested' = Append(requested, page)
                 /\ IF ~ok
                    THEN /\ pg_pc' = "raised"
                         /\ UNCHANGED <<page, all_items>>
                    ELSE /\ all_items' = Extend(all_items, response.data)
                         /\ IF ~HasMore(response)
                            THEN pg_pc' = "returned" /\ UNCHANGED page
                            ELSE pg_pc' = "loop" /\ page' = NextPage(page)
    /\ UNCHANGED <<collection, server>>
    /\ UNCHANGED notPage

PageIdle ==
    /\ pg_pc = "idle"
    /\ collection = "datasets"
    /\ server = <<>>
    /\ page = 1
    /\ all_items = <<>>
    /\ requested = <<>>
    /\ pg_token = FALSE

PageInit ==
    /\ pg_pc = "idle"
    /\ collection \in {"datasets", "documents", "apps"}
    /\ \E N \in 1..MaxPages : server \in [1..N -> PageShapes]
    /\ page = 1
    /\ all_items = <<>>
    /\ requested = <<>>
    /\ pg_token = FALSE

-----------------------------------------------------------------------------
(* DifyMigration: the run, the instances and the migration pipelines       *)

Names == {"A", "B"}
Kinds == {"datasets", "apps"}
\* A segment of an exported document: -1 has no 'content' key, 0 has the
\* empty string as content, c > 0 has the content of c characters `c`.
Contents == {-1, 0, 1, 2}

SeqsUpTo(S, n) == UNION {[1..k -> S] : k \in 0..n}

\* A source instance's listing is read when the run first lists it; until
\* then it is Unknown.
Unknown == <<"?">>

RECURSIVE KnownObjects(_, _)
KnownObjects(c, k) ==
    IF k = 0 THEN 0
    ELSE (IF c[k] = Unknown THEN 0 ELSE Len(c[k])) + KnownObjects(c, k - 1)

\* the listings source s may turn out to have
Listings(c, s) ==
    IF c[s] # Unknown THEN {c[s]}
    ELSE SeqsUpTo(Names, MaxObjects - KnownObjects(c, Len(c)))

TargetNames(t) == {n \in Names : t[n] > 0}

NoCounts == [total |-> 0, success |-> 0, skipped |-> 0, failed |-> 0]
NoCalls == [tgt |-> 0, writes |-> 0, src |-> 0, stored |-> FALSE]
NoUnit == [name |-> "none", docs |-> 0]
NoLast == [name |-> "none", counted |-> "none", why |-> "none", tgt |-> 0, writes |-> 0]
ZeroPerName == [n \in Names |-> 0]

\* Dataset ids of the target: the n-th dataset carrying the name.
NoId == [name |-> "none", n |-> 0]
NoDoc == [all_empty |-> FALSE, sent |-> FALSE, raised |-> FALSE, dest |-> NoId,
          segments |-> <<>>, text |-> <<>>]

\* next(ds for ds in existing_datasets if ds['name'] == dataset_name)['id']
ExistingId(name) == [name |-> name, n |-> 1]

\* the id create_dataset returns
NewId(name, t) == [name |-> name, n |-> t[name] + 1]

SegLists == SeqsUpTo(Contents, MaxSegments)

\* [seg['content'] for seg in segments if 'content' in seg]
WithContent(segments) == SelectSeq(segments, LAMBDA c : c # -1)

RECURSIVE SumLen(_)
SumLen(parts) == IF parts = <<>> THEN 0 ELSE Head(parts) + SumLen(Tail(parts))

\* len("\n\n".join(parts))
JoinLen(parts) == IF parts = <<>> THEN 0 ELSE SumLen(parts) + 2 * (Len(parts) - 1)

\* the characters of a segment's content
Chars(c) == [i \in 1..c |-> c]

Separator_None == <<>>

\* the separator "\n\n" of the join: two newline characters, written 0
Separator == <<0, 0>>

\* "\n\n".join(parts)
RECURSIVE Join(_)
Join(parts) ==
    IF parts = <<>> THEN <<>>
    ELSE IF Len(parts) = 1 THEN Chars(parts[1])
    ELSE Chars(Head(parts)) \o Separator \o Join(Tail(parts))

\* `if not combined_text`
NoContent(segments) == JoinLen(WithContent(segments)) = 0

\* every segment of the document has empty content (or none)
AllEmpty(segments) == \A i \in 1..Len(segments) : segments[i] <= 0

AfterCheck_AlwaysCreate(existing_dataset) == "imp_create"

\* import_dataset after the listing: reuse the existing dataset's id, or
\* create the dataset
AfterCheck(existing_dataset) == IF existing_dataset THEN "imp_docs" ELSE "imp_create"

Bump(c, field) == [c EXCEPT ![field] = @ + 1]

\* The environment of a run.  With a free pattern every request may fail
\* and every response is drawn afresh; otherwise the export requests at the
\* places (source, position) of fail_export fail, every other request
\* succeeds, every dataset has `docs` documents of one non-empty segment and
\* every import response carries an id, so that two runs see the same input.
\* The segments of a document are drawn afresh where any_segments is set.
\* The listing calls of the sources in fail_listing fail; the tool is run
\* `runs` times.
FreePattern == [free |-> TRUE, fail_export |-> {}, fail_listing |-> {}, docs |-> 0,
                any_segments |-> FALSE, runs |-> MaxRuns]
NoSaved == [set |-> FALSE, counts |-> NoCounts, target |-> ZeroPerName]
Places == (1..NumSources) \X (1..MaxObjects)

Permits(choice, fixed) == pattern.free \/ choice = fixed

\* a document of one segment with text: the documents of the runs that do
\* not look into the segments
OneSegment == <<1>>

\* how many documents an exported dataset may have
DocCounts == IF pattern.free THEN 0..MaxDocs ELSE {pattern.docs}

ExportOk == <<source_idx, obj_idx>> \notin pattern.fail_export

NextSource_GiveUp(i) == Len(src_objects) + 1

NextSource_Again(i) == i

\* `for i, source_client in enumerate(self.source_clients, 1)`: the loop goes
\* on to the next source, also from the except branch of a failed listing
NextSource(i) == i + 1

\* `if skip_existing and dataset_name in existing_names` of the streaming loops
ShouldSkip_Never(name, E) == FALSE

\* `if skip_existing and dataset_name in existing_names` of the streaming loops
ShouldSkip(name, E) == skip_existing /\ name \in E

AddImported_Forgets(E, name) == E

\* existing_names.add(dataset_name) after a successful import
AddImported(E, name) == E \cup {name}

ImportSkipArg_PassFlag == skip_existing

\* the skip_existing argument the orchestrator passes to import_dataset /
\* import_app: streaming passes the literal False, batch passes its flag
ImportSkipArg == IF streaming THEN FALSE ELSE skip_existing

\* how the orchestrators count an import that returned None
NoneCounts == "skipped"

\* migrate_all / migrate_all_apps: a run starts.  The tool is run again
\* when a run has ended without a failure (a run after a failed one is a
\* first run on the target that one left).
StartRun ==
    /\ \/ mg_pc = "idle"
       \/ mg_pc = "done" /\ pattern.free /\ clean /\ counts.failed = 0
    /\ run < pattern.runs
    /\ run' = run + 1
    /\ prev_clean' = (mg_pc = "done" /\ clean /\ counts.failed = 0)
    /\ tgt0' = TargetNames(tgt_objects)
    /\ mg_pc' = IF streaming THEN "start" ELSE "b_source"
    /\ counts' = NoCounts
    /\ existing_names' = {}
    /\ source_idx' = 1
    /\ obj_idx' = 1
    /\ all_objects' = <<>>
    /\ export_data' = NoUnit
    /\ exported_data' = <<>>
    /\ idx' = 1
    /\ observed' = {}
    /\ created' = ZeroPerName
    /\ wrote' = {}
    /\ clean' = TRUE
    /\ obj_calls' = NoCalls
    /\ last' = NoLast
    /\ UNCHANGED <<skip_existing, auto_create, streaming, kind, src_objects, tgt_objects,
                   pattern, saved>>
    /\ UNCHANGED docVars
    /\ UNCHANGED notMg

migrate_all == kind = "datasets" /\ StartRun

migrate_all_apps == kind = "apps" /\ StartRun

\* The streaming orchestrators' first step: the target listing that fills
\* existing_names; a failure leaves the set empty.
FetchExisting ==
    /\ mg_pc = "start"
    /\ \E ok \in BOOLEAN :
        /\ Permits(ok, TRUE)
        /\ existing_names' = IF ok THEN TargetNames(tgt_objects) ELSE {}
        /\ observed' = IF ok THEN TargetNames(tgt_objects) ELSE {}
        /\ clean' = (clean /\ ok)
    /\ mg_pc' = "source"
    /\ UNCHANGED <<runArgs, src_objects, tgt_objects, counts, source_idx, obj_idx,
                   all_objects, export_data, exported_data, idx, created, wrote,
                   obj_calls, last>>
    /\ UNCHANGED docVars
    /\ UNCHANGED notMg

KbFetchExisting == kind = "datasets" /\ FetchExisting

WfFetchExisting == kind = "apps" /\ FetchExisting

\* The streaming loop over self.source_clients: list the next source; a source
\* that cannot be listed is logged and passed over.  After the last source
\* the summary is printed.
ListSource ==
    /\ mg_pc = "source"
    /\ IF source_idx > Len(src_objects)
       THEN /\ mg_pc' = "done"
            /\ UNCHANGED <<src_objects, all_objects, obj_idx, source_idx, clean>>
       ELSE \E ok \in BOOLEAN, listing \in Listings(src_objects, source_idx) :
            /\ Permits(ok, source_idx \notin pattern.fail_listing)
            /\ clean' = (clean /\ ok)
            /\ IF ok
               THEN /\ src_objects' = [src_objects EXCEPT ![source_idx] = listing]
                    /\ all_objects' = listing
                    /\ obj_idx' = 1
                    /\ mg_pc' = "object"
                    /\ UNCHANGED source_idx
               ELSE /\ source_idx' = NextSource(source_idx)
                    /\ UNCHANGED <<src_objects, all_objects, obj_idx, mg_pc>>
    /\ UNCHANGED <<runArgs, tgt_objects, counts, existing_names, export_data,
                   exported_data, idx, observed, created, wrote, obj_calls, last>>
    /\ UNCHANGED docVars
    /\ UNCHANGED notMg

KbListSource == kind = "datasets" /\ ListSource

WfListSource == kind = "apps" /\ ListSource

\* The streaming loop over the listing: total_count += 1, then the skip
\* test against existing_names.
NextObject ==
    /\ mg_pc = "object"
    /\ IF obj_idx > Len(all_objects)
       THEN /\ source_idx' = NextSource(source_idx)
            /\ mg_pc' = "source"
            /\ obj_idx' = 1
            /\ all_objects' = <<>>
            /\ UNCHANGED <<counts, obj_calls, last>>
       ELSE LET name == all_objects[obj_idx] IN
            IF ShouldSkip(name, existing_names)
            THEN /\ counts' = Bump(Bump(counts, "total"), "skipped")
                 /\ last' = [name |-> name, counted |-> "skipped",
                             why |-> "in_existing_names", tgt |-> 0, writes |-> 0]
                 /\ obj_calls' = NoCalls
                 /\ obj_idx' = obj_idx + 1
                 /\ UNCHANGED <<mg_pc, source_idx, all_objects>>
            ELSE /\ counts' = Bump(counts, "total")
                 /\ last' = NoLast
                 /\ obj_calls' = NoCalls
                 /\ mg_pc' = "export"
                 /\ UNCHANGED <<obj_idx, source_idx, all_objects>>
    /\ UNCHANGED <<runArgs, src_objects, tgt_objects, existing_names, export_data,
                   exported_data, idx, observed, created, wrote, clean>>
    /\ UNCHANGED docVars
    /\ UNCHANGED notMg

KbNextObject == kind = "datasets" /\ NextObject

WfNextObject == kind = "apps" /\ NextObject

\* The object the pipeline is working on.
CurName ==
    IF mg_pc \in {"export", "b_export"} THEN all_objects[obj_idx] ELSE export_data.name

NextDocument_Skip(i) == i + 2

\* `for idx, document in enumerate(documents, 1)` of import_dataset
NextDocument(i) == i + 1

CheckExisting_AsksSource(oc) == [oc EXCEPT !.src = @ + 1]

\* `existing_datasets = self.target_client.get_all_datasets()` of
\* import_dataset: one listing of the target
CheckExisting(oc) == [oc EXCEPT !.tgt = @ + 1]

Tally_DropFailed(c, counted) ==
    IF counted \in {"none", "failed"} THEN c ELSE Bump(c, counted)

\* success_count += 1, skipped_count += 1 or failed_count += 1 of the
\* orchestrator, by the way the object ended
Tally(c, counted) == IF counted = "none" THEN c ELSE Bump(c, counted)

\* The current object ends in the orchestrator: one counter (none for a
\* failed export of export_all_*) is incremented and the loop moves on.
Finish(counted, why, oc) ==
    /\ counts' = Tally(counts, counted)
    /\ last' = [name |-> CurName, counted |-> counted, why |-> why,
                tgt |-> oc.tgt, writes |-> oc.writes]
    /\ obj_calls' = NoCalls
    /\ obj_idx' = obj_idx + 1
    /\ mg_pc' = IF mg_pc = "b_export" THEN "b_export"
                ELSE IF streaming THEN "object" ELSE "b_import"
    /\ export_data' = NoUnit
    /\ idx' = 1
    /\ new_dataset_id' = NoId
    /\ success_count' = 0
    /\ last_doc' = NoDoc

\* The source requests of one export, every listing fitting one page:
\* export_dataset calls get_all_datasets to find the dataset, then
\* get_all_documents, then get_document_segments once per document;
\* export_app calls get_all_apps and export_app_dsl.
ExportRequests(unit) == IF kind = "datasets" THEN 1 + 1 + unit.docs ELSE 1 + 1

StoreUnit_Skip(oc) == oc

\* export_dataset / export_app: the unit is written to its file in
\* export_dir before it is returned
StoreUnit(oc) == [oc EXCEPT !.stored = TRUE]

AfterBatchExport_ImportNow == "b_import"

\* export_all_datasets / export_all_apps: all_exported_data.append(data),
\* then the next object of the listing
AfterBatchExport == "b_export"

\* The export of the current object succeeded with the unit `unit`.
Exported(unit) ==
    IF mg_pc = "export"
    THEN /\ export_data' = unit
         /\ mg_pc' = "imp_check"
         /\ obj_calls' = StoreUnit([obj_calls EXCEPT !.src = @ + ExportRequests(unit)])
         /\ UNCHANGED <<exported_data, obj_idx, counts, last, idx, docVars>>
    ELSE /\ exported_data' = Append(exported_data, unit)
         /\ obj_idx' = obj_idx + 1
         /\ mg_pc' = AfterBatchExport
         /\ obj_calls' = StoreUnit([obj_calls EXCEPT !.src = @ + ExportRequests(unit)])
         /\ UNCHANGED <<export_data, counts, last, idx, docVars>>

\* The export of the current object raised: the streaming loop counts it
\* failed, export_all_* only logs it.
ExportFailed ==
    /\ Finish(IF mg_pc = "export" THEN "failed" ELSE "none", "export_failed", obj_calls)
    /\ UNCHANGED exported_data

\* export_dataset: dataset listing, document listing and one segment fetch
\* per document on the source, then the export file.
export_dataset ==
    /\ kind = "datasets"
    /\ mg_pc \in {"export", "b_export"}
    /\ obj_idx <= Len(all_objects)
    /\ \E ok \in BOOLEAN, docs \in DocCounts :
        /\ Permits(ok, ExportOk)
        /\ clean' = (clean /\ ok)
        /\ IF ok THEN Exported([name |-> all_objects[obj_idx], docs |-> docs])
                 ELSE ExportFailed
    /\ UNCHANGED <<runArgs, src_objects, tgt_objects, existing_names, source_idx,
                   all_objects, observed, created, wrote>>
    /\ UNCHANGED notMg

\* export_app: app listing and DSL export on the source, then the file.
export_app ==
    /\ kind = "apps"
    /\ mg_pc \in {"export", "b_export"}
    /\ obj_idx <= Len(all_objects)
    /\ \E ok \in BOOLEAN :
        /\ Permits(ok, ExportOk)
        /\ clean' = (clean /\ ok)
        /\ IF ok THEN Exported([name |-> all_objects[obj_idx], docs |-> 0])
                 ELSE ExportFailed
    /\ UNCHANGED <<runArgs, src_objects, tgt_objects, existing_names, source_idx,
                   all_objects, observed, created, wrote>>
    /\ UNCHANGED notMg

\* import_dataset up to the create-or-reuse decision: the target listing and
\* the branches on existing_dataset / skip_existing / auto_create.  A None
\* result returns to the orchestrator, which counts it.
import_dataset ==
    /\ kind = "datasets"
    /\ mg_pc = "imp_check"
    /\ \E ok \in BOOLEAN :
        LET dataset_name == export_data.name
            existing_dataset == dataset_name \in TargetNames(tgt_objects)
            oc == CheckExisting(obj_calls)
        IN  /\ Permits(ok, TRUE)
            /\ clean' = (clean /\ ok)
            /\ IF ~ok
               THEN /\ Finish("failed", "target_listing_failed", oc)
                    /\ UNCHANGED observed
               ELSE /\ observed' = observed \cup TargetNames(tgt_objects)
                    /\ IF existing_dataset /\ ImportSkipArg
                       THEN Finish(NoneCounts, "exists_skip", oc)
                       ELSE IF existing_dataset \/ auto_create
                       THEN /\ mg_pc' = AfterCheck(existing_dataset)
                            /\ new_dataset_id' = IF existing_dataset
                                                 THEN ExistingId(dataset_name)
                                                 ELSE new_dataset_id
                            /\ obj_calls' = oc
                            /\ UNCHANGED <<counts, last, obj_idx, export_data, idx,
                                           success_count, last_doc>>
                       ELSE Finish(NoneCounts, "absent_no_auto_create", oc)
    /\ UNCHANGED <<runArgs, src_objects, tgt_objects, existing_names, source_idx,
                   all_objects, exported_data, created, wrote>>
    /\ UNCHANGED notMg

\* import_dataset's call of create_dataset (absent and auto_create).  A
\* failed request leaves the target as it was and raises to the orchestrator.
create_dataset ==
    /\ kind = "datasets"
    /\ mg_pc = "imp_create"
    /\ \E ok \in BOOLEAN :
        LET dataset_name == export_data.name
            oc == [obj_calls EXCEPT !.tgt = @ + 1, !.writes = @ + 1]
        IN  /\ Permits(ok, TRUE)
            /\ created' = [created EXCEPT ![dataset_name] = @ + 1]
            /\ wrote' = wrote \cup {dataset_name}
            /\ clean' = (clean /\ ok)
            /\ IF ok
               THEN /\ tgt_objects' = [tgt_objects EXCEPT ![dataset_name] = @ + 1]
                    /\ new_dataset_id' = NewId(dataset_name, tgt_objects)
                    /\ mg_pc' = "imp_docs"
                    /\ obj_calls' = oc
                    /\ UNCHANGED <<counts, last, obj_idx, export_data, idx,
                                   success_count, last_doc>>
               ELSE /\ Finish("failed", "create_dataset_failed", oc)
                    /\ UNCHANGED tgt_objects
    /\ UNCHANGED <<runArgs, src_objects, existing_names, source_idx, all_objects,
                   exported_data, observed>>
    /\ UNCHANGED notMg

\* import_dataset's document loop with _import_document: a document without
\* content is passed over, any other is sent with create_document_by_text; a
\* failure is logged and the loop goes on.  After the last document the
\* dataset id is returned and the orchestrator counts a success (the
\* streaming one also records the name).
_import_document ==
    /\ kind = "datasets"
    /\ mg_pc = "imp_docs"
    /\ IF idx > export_data.docs
       THEN /\ Finish("success", "imported", obj_calls)
            /\ existing_names' = IF streaming
                                 THEN AddImported(existing_names, export_data.name)
                                 ELSE existing_names
            /\ UNCHANGED <<wrote, clean>>
       ELSE \E segments \in SegLists, ok \in BOOLEAN :
            /\ Permits(ok, TRUE)
            /\ pattern.any_segments \/ segments = OneSegment
            /\ idx' = NextDocument(idx)
            /\ IF NoContent(segments)
               THEN /\ success_count' = success_count + 1
                    /\ last_doc' = [all_empty |-> AllEmpty(segments), sent |-> FALSE,
                                    raised |-> FALSE, dest |-> NoId,
                                    segments |-> segments, text |-> <<>>]
                    /\ UNCHANGED <<obj_calls, wrote, clean>>
               ELSE /\ obj_calls' = [obj_calls EXCEPT !.tgt = @ + 1, !.writes = @ + 1]
                    /\ wrote' = wrote \cup {export_data.name}
                    /\ clean' = (clean /\ ok)
                    /\ success_count' = IF ok THEN success_count + 1 ELSE success_count
                    /\ last_doc' = [all_empty |-> AllEmpty(segments), sent |-> TRUE,
                                    raised |-> ~ok, dest |-> new_dataset_id,
                                    segments |-> segments,
                                    text |-> Join(WithContent(segments))]
            /\ UNCHANGED <<counts, last, obj_idx, mg_pc, existing_names, export_data,
                           new_dataset_id>>
    /\ UNCHANGED <<runArgs, src_objects, tgt_objects, source_idx, all_objects,
                   exported_data, observed, created>>
    /\ UNCHANGED notMg

\* import_app up to the import: the target listing and the skip test.  An
\* existing app that is not skipped is imported again ("will create
\* duplicate").
import_app ==
    /\ kind = "apps"
    /\ mg_pc = "imp_check"
    /\ \E ok \in BOOLEAN :
        LET app_name == export_data.name
            existing_app == app_name \in TargetNames(tgt_objects)
            oc == [obj_calls EXCEPT !.tgt = @ + 1]
        IN  /\ Permits(ok, TRUE)
            /\ clean' = (clean /\ ok)
            /\ IF ~ok
               THEN /\ Finish("failed", "target_listing_failed", oc)
                    /\ UNCHANGED observed
               ELSE /\ observed' = observed \cup TargetNames(tgt_objects)
                    /\ IF existing_app /\ ImportSkipArg
                       THEN Finish(NoneCounts, "exists_skip", oc)
                       ELSE /\ mg_pc' = "imp_dsl"
                            /\ obj_calls' = oc
                            /\ UNCHANGED <<counts, last, obj_idx, export_data, idx, docVars>>
    /\ UNCHANGED <<runArgs, src_objects, tgt_objects, existing_names, source_idx,
                   all_objects, exported_data, created, wrote>>
    /\ UNCHANGED notMg

\* import_app's call of import_app_dsl and the orchestrator's count of the
\* result: the id of the imported app, None when the response carries none.
import_app_dsl ==
    /\ kind = "apps"
    /\ mg_pc = "imp_dsl"
    /\ \E ok \in BOOLEAN, app_id \in {"id", "None"} :
        LET app_name == export_data.name
            oc == [obj_calls EXCEPT !.tgt = @ + 1, !.writes = @ + 1]
        IN  /\ Permits(ok, TRUE)
            /\ Permits(app_id, "id")
            /\ created' = [created EXCEPT ![app_name] = @ + 1]
            /\ wrote' = wrote \cup {app_name}
            /\ clean' = (clean /\ ok)
            /\ IF ~ok
               THEN /\ Finish("failed", "import_app_dsl_failed", oc)
                    /\ UNCHANGED <<tgt_objects, existing_names>>
               ELSE /\ tgt_objects' = [tgt_objects EXCEPT ![app_name] = @ + 1]
                    /\ IF app_id = "id"
                       THEN /\ Finish("success", "imported", oc)
                            /\ existing_names' = IF streaming
                                                 THEN AddImported(existing_names, app_name)
                                                 ELSE existing_names
                       ELSE /\ Finish(NoneCounts, "imported_without_id", oc)
                            /\ UNCHANGED existing_names
    /\ UNCHANGED <<runArgs, src_objects, source_idx, all_objects, exported_data,
                   observed>>
    /\ UNCHANGED notMg

\* export_all_datasets / export_all_apps, the loop over the sources: list
\* the next source (a failure is logged); after the last one the import
\* loop of the batch orchestrator starts.
BatchListSource ==
    /\ mg_pc = "b_source"
    /\ IF source_idx > Len(src_objects)
       THEN /\ mg_pc' = "b_import"
            /\ obj_idx' = 1
            /\ UNCHANGED <<src_objects, all_objects, source_idx, clean>>
       ELSE \E ok \in BOOLEAN, listing \in Listings(src_objects, source_idx) :
            /\ Permits(ok, source_idx \notin pattern.fail_listing)
            /\ clean' = (clean /\ ok)
            /\ IF ok
               THEN /\ src_objects' = [src_objects EXCEPT ![source_idx] = listing]
                    /\ all_objects' = listing
                    /\ obj_idx' = 1
                    /\ mg_pc' = "b_export"
                    /\ UNCHANGED source_idx
               ELSE /\ source_idx' = NextSource(source_idx)
                    /\ UNCHANGED <<src_objects, all_objects, obj_idx, mg_pc>>
    /\ UNCHANGED <<runArgs, tgt_objects, counts, existing_names, export_data,
                   exported_data, idx, observed, created, wrote, obj_calls, last>>
    /\ UNCHANGED docVars
    /\ UNCHANGED notMg

export_all_datasets == kind = "datasets" /\ BatchListSource

export_all_apps == kind = "apps" /\ BatchListSource

\* export_all_*: every object of the current source has been exported.
BatchSourceDone ==
    /\ mg_pc = "b_export"
    /\ obj_idx > Len(all_objects)
    /\ source_idx' = NextSource(source_idx)
    /\ mg_pc' = "b_source"
    /\ obj_idx' = 1
    /\ all_objects' = <<>>
    /\ UNCHANGED <<runArgs, src_objects, tgt_objects, counts, existing_names,
                   export_data, exported_data, idx, observed, created, wrote,
                   clean, obj_calls, last>>
    /\ UNCHANGED docVars
    /\ UNCHANGED notMg

\* The import loop of the batch orchestrators: hand the next exported unit
\* to import_dataset / import_app; after the last one print the summary,
\* whose total is len(exported_data).
BatchNextImport ==
    /\ mg_pc = "b_import"
    /\ IF obj_idx > Len(exported_data)
       THEN /\ counts' = [counts EXCEPT !.total = Len(exported_data)]
            /\ mg_pc' = "done"
            /\ UNCHANGED <<export_data, obj_calls, last>>
       ELSE /\ export_data' = exported_data[obj_idx]
            /\ obj_calls' = NoCalls
            /\ last' = NoLast
            /\ mg_pc' = "imp_check"
            /\ UNCHANGED counts
    /\ UNCHANGED <<runArgs, src_objects, tgt_objects, existing_names, source_idx,
                   obj_idx, all_objects, exported_data, idx, observed, created,
                   wrote, clean>>
    /\ UNCHANGED docVars
    /\ UNCHANGED notMg

_migrate_batch == kind = "datasets" /\ BatchNextImport

_migrate_apps_batch == kind = "apps" /\ BatchNextImport

\* no run has been started: the orchestrators' locals do not exist yet
NoLocals ==
    /\ run = 0
    /\ prev_clean = FALSE
    /\ tgt0 = {}
    /\ saved = NoSaved
    /\ mg_pc = "idle"
    /\ counts = NoCounts
    /\ existing_names = {}
    /\ source_idx = 1
    /\ obj_idx = 1
    /\ all_objects = <<>>
    /\ export_data = NoUnit
    /\ exported_data = <<>>
    /\ idx = 1
    /\ observed = {}
    /\ created = ZeroPerName
    /\ wrote = {}
    /\ clean = TRUE
    /\ obj_calls = NoCalls
    /\ last = NoLast
    /\ new_dataset_id = NoId
    /\ success_count = 0
    /\ last_doc = NoDoc

\* self.source_clients of the configuration; nothing is known of what they list
NothingRun ==
    /\ src_objects = [s \in 1..NumSources |-> Unknown]
    /\ NoLocals

MgIdle ==
    /\ skip_existing = TRUE
    /\ auto_create = TRUE
    /\ streaming = TRUE
    /\ kind = "none"
    /\ tgt_objects = ZeroPerName
    /\ pattern = FreePattern
    /\ NothingRun

\* DifyMigration.__init__ and the arguments of migrate_all / migrate_all_apps
MgInit ==
    /\ skip_existing \in BOOLEAN
    /\ auto_create \in BOOLEAN
    /\ streaming \in BOOLEAN
    /\ kind \in Kinds
    /\ kind = "apps" => auto_create
    /\ tgt_objects \in [Names -> {0, 1}]
    /\ pattern = FreePattern
    /\ NothingRun

\* The same migration is run in batch mode on a target equal to the one the
\* streaming run started from, with the same sources and the same failures.
RunBatchOnSameInput ==
    /\ ~pattern.free
    /\ streaming
    /\ mg_pc = "done"
    /\ run < MaxRuns
    /\ saved' = [set |-> TRUE, counts |-> counts, target |-> tgt_objects]
    /\ tgt_objects' = [n \in Names |-> IF n \in tgt0 THEN 1 ELSE 0]
    /\ streaming' = FALSE
    /\ run' = run + 1
    /\ prev_clean' = FALSE
    /\ mg_pc' = "b_source"
    /\ counts' = NoCounts
    /\ existing_names' = {}
    /\ source_idx' = 1
    /\ obj_idx' = 1
    /\ all_objects' = <<>>
    /\ export_data' = NoUnit
    /\ exported_data' = <<>>
    /\ idx' = 1
    /\ observed' = {}
    /\ created' = ZeroPerName
    /\ wrote' = {}
    /\ clean' = TRUE
    /\ obj_calls' = NoCalls
    /\ last' = NoLast
    /\ UNCHANGED <<skip_existing, auto_create, kind, tgt0, src_objects, pattern>>
    /\ UNCHANGED docVars
    /\ UNCHANGED notMg

\* One call of import_dataset: an orchestrator has exported the unit
\* export_data and hands it over (the streaming one after its skip test),
\* or import_from_file has read it from a file.  The documents have any
\* segments.
ImportInit ==
    /\ skip_existing \in BOOLEAN
    /\ auto_create \in BOOLEAN
    /\ streaming \in BOOLEAN
    /\ kind = "datasets"
    /\ tgt_objects \in [Names -> {0, 1}]
    /\ pattern = [FreePattern EXCEPT !.any_segments = TRUE]
    /\ export_data \in [name : Names, docs : 0..MaxDocs]
    /\ ~(streaming /\ ShouldSkip(export_data.name, TargetNames(tgt_objects)))
    /\ run = 1
    /\ prev_clean = FALSE
    /\ tgt0 = TargetNames(tgt_objects)
    /\ src_objects = [s \in 1..NumSources |-> <<export_data.name>>]
    /\ saved = NoSaved
    /\ mg_pc = "imp_check"
    /\ counts = IF streaming THEN Bump(NoCounts, "total") ELSE NoCounts
    /\ existing_names = IF streaming THEN tgt0 ELSE {}
    /\ source_idx = 1
    /\ obj_idx = 1
    /\ all_objects = IF streaming THEN <<export_data.name>> ELSE <<>>
    /\ exported_data = IF streaming THEN <<>> ELSE <<export_data>>
    /\ idx = 1
    /\ observed = IF streaming THEN tgt0 ELSE {}
    /\ created = ZeroPerName
    /\ wrote = {}
    /\ clean = TRUE
    /\ obj_calls = NoCalls
    /\ last = NoLast
    /\ new_dataset_id = NoId
    /\ success_count = 0
    /\ last_doc = NoDoc

ImportNext == import_dataset \/ create_dataset \/ _import_document

FileResult_Passes(ret) == ret

\* import_from_file calls import_dataset as a statement and has no return:
\* whatever import_dataset returned, the caller receives None
FileResult(ret) == "None"

\* `if result is None: skipped_count += 1 else: success_count += 1` of
\* import_from_backup
BackupCounts(result) == IF result = "None" THEN "skipped" ELSE "success"

\* One round of the loop of import_from_backup over the backup files:
\* import_from_file reads the file and runs import_dataset on it with the
\* default auto_create=True (the target listing, the skip test,
\* create_dataset when the name is absent, the documents, whose failures
\* are only logged), and the round counts the file by what came back: a
\* None as skipped, anything else as success, an exception as failed.
\* After the last file the summary is printed.
import_from_backup ==
    /\ mg_pc = "bk_import"
    /\ IF obj_idx > Len(exported_data)
       THEN /\ mg_pc' = "bk_done"
            /\ UNCHANGED <<tgt_objects, counts, obj_idx, observed, created, wrote,
                           clean, last>>
       ELSE \E load_ok \in BOOLEAN, list_ok \in BOOLEAN, create_ok \in BOOLEAN,
               docs_ok \in BOOLEAN :
            LET unit == exported_data[obj_idx]
                existing_dataset == unit.name \in TargetNames(tgt_objects)
                listed == load_ok
                skipped == listed /\ list_ok /\ existing_dataset /\ skip_existing
                creates == listed /\ list_ok /\ ~existing_dataset
                reaches_docs == listed /\ list_ok /\ ~skipped
                                /\ (existing_dataset \/ create_ok)
                sends_docs == reaches_docs /\ unit.docs > 0
                why == IF ~load_ok THEN "file_unreadable"
                       ELSE IF ~list_ok THEN "target_listing_failed"
                       ELSE IF skipped THEN "exists_skip"
                       ELSE IF creates /\ ~create_ok THEN "create_dataset_failed"
                       ELSE "imported"
                ret == IF why = "exists_skip" THEN "None" ELSE "id"
                counted == IF why \in {"exists_skip", "imported"}
                           THEN BackupCounts(FileResult(ret))
                           ELSE "failed"
                writes == (IF creates THEN 1 ELSE 0)
                          + (IF sends_docs THEN unit.docs ELSE 0)
            IN  /\ list_ok \/ load_ok
                /\ create_ok \/ (creates /\ list_ok)
                /\ docs_ok \/ sends_docs
                /\ tgt_objects' = IF creates /\ create_ok
                                  THEN [tgt_objects EXCEPT ![unit.name] = @ + 1]
                                  ELSE tgt_objects
                /\ created' = IF creates
                              THEN [created EXCEPT ![unit.name] = @ + 1]
                              ELSE created
                /\ wrote' = IF writes > 0 THEN wrote \cup {unit.name} ELSE wrote
                /\ observed' = IF listed /\ list_ok
                               THEN observed \cup TargetNames(tgt_objects)
                               ELSE observed
                /\ clean' = (clean /\ load_ok /\ list_ok /\ create_ok /\ docs_ok)
                /\ counts' = Bump(Bump(counts, "total"), counted)
                /\ last' = [name |-> unit.name, counted |-> counted, why |-> why,
                            tgt |-> (IF listed THEN 1 ELSE 0) + writes,
                            writes |-> writes]
                /\ obj_idx' = obj_idx + 1
                /\ UNCHANGED mg_pc
    /\ UNCHANGED <<runArgs, src_objects, existing_names, source_idx, all_objects,
                   export_data, exported_data, idx, obj_calls>>
    /\ UNCHANGED docVars
    /\ UNCHANGED notMg

\* import_from_backup has found the backup files (at least one, or it
\* returns at once), asked for skip_existing and built a DifyMigration
\* with a dummy source.
BackupInit ==
    /\ skip_existing \in BOOLEAN
    /\ auto_create = TRUE
    /\ streaming = FALSE
    /\ kind = "datasets"
    /\ tgt_objects \in [Names -> {0, 1}]
    /\ pattern = FreePattern
    /\ exported_data \in SeqsUpTo([name : Names, docs : 0..MaxDocs], MaxFiles) \ {<<>>}
    /\ run = 1
    /\ prev_clean = FALSE
    /\ tgt0 = TargetNames(tgt_objects)
    /\ src_objects = [s \in 1..NumSources |-> Unknown]
    /\ saved = NoSaved
    /\ mg_pc = "bk_import"
    /\ counts = NoCounts
    /\ existing_names = {}
    /\ source_idx = 1
    /\ obj_idx = 1
    /\ all_objects = <<>>
    /\ export_data = NoUnit
    /\ idx = 1
    /\ observed = {}
    /\ created = ZeroPerName
    /\ wrote = {}
    /\ clean = TRUE
    /\ obj_calls = NoCalls
    /\ last = NoLast
    /\ new_dataset_id = NoId
    /\ success_count = 0
    /\ last_doc = NoDoc

BackupNext == import_from_backup

\* a streaming run on given sources, target and flags, with fixed failures
CompareInit ==
    /\ skip_existing \in BOOLEAN
    /\ auto_create \in BOOLEAN
    /\ streaming = TRUE
    /\ kind \in Kinds
    /\ kind = "apps" => auto_create
    /\ tgt_objects \in [Names -> {0, 1}]
    /\ pattern \in [free : {FALSE}, fail_export : SUBSET Places, fail_listing : {{}},
                    docs : 0..MaxDocs, any_segments : {FALSE}, runs : {MaxRuns}]
    /\ NothingRun

\* a configuration with one source more, where the listing calls of the
\* sources in fail_listing fail, every other request succeeds and every
\* dataset has one document more
SourcesInit ==
    /\ skip_existing \in BOOLEAN
    /\ auto_create \in BOOLEAN
    /\ streaming \in BOOLEAN
    /\ kind \in Kinds
    /\ kind = "apps" => auto_create
    /\ tgt_objects \in [Names -> {0, 1}]
    /\ pattern \in [free : {FALSE}, fail_export : {{}},
                    fail_listing : SUBSET (1..(NumSources + 1)),
                    docs : {MaxDocs + 1}, any_segments : {FALSE}, runs : {1}]
    /\ src_objects = [s \in 1..(NumSources + 1) |-> Unknown]
    /\ NoLocals

\* one run of the tool in which any request may fail, on an empty target
OneRunInit ==
    /\ skip_existing \in BOOLEAN
    /\ auto_create \in BOOLEAN
    /\ streaming \in BOOLEAN
    /\ kind \in Kinds
    /\ kind = "apps" => auto_create
    /\ tgt_objects = ZeroPerName
    /\ pattern = [FreePattern EXCEPT !.runs = 1]
    /\ NothingRun

-----------------------------------------------------------------------------
(* DifyMigration.migrate_all_with_apps: the dataset pipeline (migrate_all) *)
(* and the app pipeline (migrate_all_apps), as two threads or in sequence. *)
(* Both pipelines are the streaming orchestrators.                         *)

Pipelines == {"kb", "wf"}

TargetClient == 0       \* self.target_client; self.source_clients are 1..ParSources
Clients == {TargetClient} \cup (1..ParSources)

\* what every source lists, per pipeline
ParListing == [i \in 1..ParObjects |-> i]

FailModes == {"none", "any", "all"}

\* the requests of pipeline p fail as fail_mode says
Allowed(p, ok) ==
    /\ fail_mode[p] = "none" => ok
    /\ fail_mode[p] = "all" => ~ok

\* migrate_all calls the dataset endpoints, authorised by self.headers;
\* migrate_all_apps calls the console endpoints, which go through
\* _ensure_console_login and the client's console_access_token.
UsesConsole_Both(p) == TRUE

UsesConsole(p) == p = "wf"

NoAccess == [r |-> {}, w |-> {}]

Read(a, p) == [a EXCEPT !.r = @ \cup {p}]

Write(a, p) == [a EXCEPT !.w = @ \cup {p}]

\* _ensure_console_login + console_login on client c: the token is read, and
\* written when it was missing and the login succeeded
TokenAfterCall(p, c) ==
    IF UsesConsole(p) /\ console_token[c] = "none" /\ console_ok
    THEN [console_token EXCEPT ![c] = "token"]
    ELSE console_token

TokenAccess(p, c) ==
    IF ~UsesConsole(p) THEN acc.token
    ELSE [acc.token EXCEPT ![c] =
            IF console_token[c] = "none" /\ console_ok
            THEN Write(Read(@, p), p) ELSE Read(@, p)]

\* the call of pipeline p on client c returns (ok is the request's outcome)
Succeeds(p, c, ok) ==
    ok /\ (UsesConsole(p) => TokenAfterCall(p, c)[c] # "none")

\* one call of pipeline p on client c, as far as the client object goes
ClientCall(p, c) ==
    /\ console_token' = TokenAfterCall(p, c)
    /\ uses' = [uses EXCEPT ![p] = @ \cup {c}]

\* the four counters, incremented by their own pipeline
Counted(p, what) ==
    /\ th_counts' = [th_counts EXCEPT ![p] = Bump(@, what)]

Status(error) == IF error = "None" THEN "SUCCESS" ELSE "FAILED"

InParallel == args.parallel /\ args.migrate_datasets /\ args.migrate_apps

\* The caller's thread up to the creation of the two threads, or up to the
\* first phase of the sequential branch.
migrate_all_with_apps ==
    /\ par_pc = "call"
    /\ par_pc' = IF InParallel THEN "created" ELSE "phase1"
    /\ kb_error' = "None"
    /\ workflow_error' = "None"
    /\ acc' = IF InParallel
              THEN [acc EXCEPT !.error = [p \in Pipelines |-> Write(@[p], "main")]]
              ELSE acc
    /\ UNCHANGED <<args, console_ok, fail_mode, th_pc, th_counts, th_existing,
                   th_source_idx, th_obj_idx, th_target, console_token, report,
                   uses>>
    /\ UNCHANGED notPar

kb_thread_start ==
    /\ par_pc = "created"
    /\ th_pc' = [th_pc EXCEPT !["kb"] = "begin"]
    /\ par_pc' = "kb_started"
    /\ UNCHANGED <<args, console_ok, fail_mode, th_counts, th_existing,
                   th_source_idx, th_obj_idx, th_target, console_token, kb_error,
                   workflow_error, report, uses, acc>>
    /\ UNCHANGED notPar

workflow_thread_start ==
    /\ par_pc = "kb_started"
    /\ th_pc' = [th_pc EXCEPT !["wf"] = "begin"]
    /\ par_pc' = "joining"
    /\ UNCHANGED <<args, console_ok, fail_mode, th_counts, th_existing,
                   th_source_idx, th_obj_idx, th_target, console_token, kb_error,
                   workflow_error, report, uses, acc>>
    /\ UNCHANGED notPar

BothJoined_First == th_pc["kb"] = "finished"

\* kb_thread.join() and then workflow_thread.join() have returned
BothJoined == th_pc["kb"] = "finished" /\ th_pc["wf"] = "finished"

\* kb_thread.join(); workflow_thread.join(); then the two result lines.
ReportResults ==
    /\ par_pc = "joining"
    /\ BothJoined
    /\ report' = [kb |-> Status(kb_error), wf |-> Status(workflow_error)]
    /\ acc' = [acc EXCEPT !.error = [p \in Pipelines |-> Read(@[p], "main")]]
    /\ par_pc' = "reported"
    /\ UNCHANGED <<args, console_ok, fail_mode, th_pc, th_counts, th_existing,
                   th_source_idx, th_obj_idx, th_target, console_token, kb_error,
                   workflow_error, uses>>
    /\ UNCHANGED notPar

Phase1Over_AtOnce == TRUE

\* self.migrate_all(...) of PHASE 1 has returned (or raised into the except
\* branch that only logs)
Phase1Over == th_pc["kb"] = "finished"

\* The sequential branch: PHASE 1, then PHASE 2 when migrate_all has returned,
\* then the closing lines; a phase whose flag is off is passed over.
SequentialPhase1 ==
    /\ par_pc = "phase1"
    /\ IF args.migrate_datasets
       THEN /\ th_pc' = [th_pc EXCEPT !["kb"] = "begin"]
            /\ par_pc' = "in_phase1"
       ELSE /\ par_pc' = "phase2"
            /\ UNCHANGED th_pc
    /\ UNCHANGED <<args, console_ok, fail_mode, th_counts, th_existing,
                   th_source_idx, th_obj_idx, th_target, console_token, kb_error,
                   workflow_error, report, uses, acc>>
    /\ UNCHANGED notPar

SequentialPhase2 ==
    /\ \/ par_pc = "phase2"
       \/ par_pc = "in_phase1" /\ Phase1Over
    /\ IF args.migrate_apps
       THEN /\ th_pc' = [th_pc EXCEPT !["wf"] = "begin"]
            /\ par_pc' = "in_phase2"
       ELSE /\ par_pc' = "closing"
            /\ UNCHANGED th_pc
    /\ UNCHANGED <<args, console_ok, fail_mode, th_counts, th_existing,
                   th_source_idx, th_obj_idx, th_target, console_token, kb_error,
                   workflow_error, report, uses, acc>>
    /\ UNCHANGED notPar

SequentialFinished ==
    /\ \/ par_pc = "closing"
       \/ par_pc = "in_phase2" /\ th_pc["wf"] = "finished"
    /\ report' = [kb |-> "FINISHED", wf |-> "FINISHED"]
    /\ par_pc' = "reported"
    /\ UNCHANGED <<args, console_ok, fail_mode, th_pc, th_counts, th_existing,
                   th_source_idx, th_obj_idx, th_target, console_token, kb_error,
                   workflow_error, uses, acc>>
    /\ UNCHANGED notPar

\* The pipeline's first step: the counters are set to 0 and the target is
\* listed into existing_names (the empty set when the listing fails).
PipelineFetchExisting ==
    \E p \in Pipelines, ok \in BOOLEAN :
        /\ th_pc[p] = "begin"
        /\ Allowed(p, ok)
        /\ ClientCall(p, TargetClient)
        /\ th_counts' = [th_counts EXCEPT ![p] = NoCounts]
        /\ th_existing' = [th_existing EXCEPT ![p] =
                IF Succeeds(p, TargetClient, ok) THEN th_target[p] ELSE {}]
        /\ acc' = [acc EXCEPT !.token = TokenAccess(p, TargetClient),
                              !.counts[p] = Write(@, p),
                              !.existing[p] = Write(@, p)]
        /\ th_source_idx' = [th_source_idx EXCEPT ![p] = 1]
        /\ th_obj_idx' = [th_obj_idx EXCEPT ![p] = 1]
        /\ th_pc' = [th_pc EXCEPT ![p] = "source"]
        /\ UNCHANGED <<par_pc, args, console_ok, fail_mode, th_target, kb_error,
                       workflow_error, report>>
        /\ UNCHANGED notPar

\* The loop over self.source_clients: list the next source.  After the last
\* one the summary is logged, migrate_all / migrate_all_apps returns and the
\* thread function ends; its except clause is not entered, since every
\* request of the orchestrator is made inside one of its own try blocks.
PipelineListSource ==
    \E p \in Pipelines, ok \in BOOLEAN :
        /\ th_pc[p] = "source"
        /\ IF th_source_idx[p] > ParSources
           THEN /\ ok
                /\ th_pc' = [th_pc EXCEPT ![p] = "finished"]
                /\ acc' = [acc EXCEPT !.counts[p] = Read(@, p)]
                /\ UNCHANGED <<th_source_idx, th_obj_idx, console_token, uses>>
           ELSE /\ Allowed(p, ok)
                /\ ClientCall(p, th_source_idx[p])
                /\ acc' = [acc EXCEPT !.token = TokenAccess(p, th_source_idx[p])]
                /\ th_obj_idx' = [th_obj_idx EXCEPT ![p] = 1]
                /\ IF Succeeds(p, th_source_idx[p], ok)
                   THEN /\ th_pc' = [th_pc EXCEPT ![p] = "object"]
                        /\ UNCHANGED th_source_idx
                   ELSE /\ th_source_idx' = [th_source_idx EXCEPT ![p] = @ + 1]
                        /\ UNCHANGED th_pc
        /\ UNCHANGED <<par_pc, args, console_ok, fail_mode, th_counts, th_existing,
                       th_target, kb_error, workflow_error, report>>
        /\ UNCHANGED notPar

\* The loop over the listing: total_count += 1, the skip test, and the
\* export of the object from the source; a failed export counts failed.
PipelineExport ==
    \E p \in Pipelines, ok \in BOOLEAN :
        /\ th_pc[p] = "object"
        /\ IF th_obj_idx[p] > Len(ParListing)
           THEN /\ ok
                /\ th_source_idx' = [th_source_idx EXCEPT ![p] = @ + 1]
                /\ th_pc' = [th_pc EXCEPT ![p] = "source"]
                /\ UNCHANGED <<th_obj_idx, th_counts, console_token, uses, acc>>
           ELSE IF (args.skip_existing /\ ParListing[th_obj_idx[p]] \in th_existing[p])
           THEN /\ ok
                /\ th_counts' = [th_counts EXCEPT ![p] = Bump(Bump(@, "total"), "skipped")]
                /\ th_obj_idx' = [th_obj_idx EXCEPT ![p] = @ + 1]
                /\ acc' = [acc EXCEPT !.counts[p] = Write(@, p),
                                      !.existing[p] = Read(@, p)]
                /\ UNCHANGED <<th_source_idx, th_pc, console_token, uses>>
           ELSE /\ Allowed(p, ok)
                /\ ClientCall(p, th_source_idx[p])
                /\ acc' = [acc EXCEPT !.token = TokenAccess(p, th_source_idx[p]),
                                      !.counts[p] = Write(@, p),
                                      !.existing[p] = Read(@, p)]
                /\ IF Succeeds(p, th_source_idx[p], ok)
                   THEN /\ th_counts' = [th_counts EXCEPT ![p] = Bump(@, "total")]
                        /\ th_pc' = [th_pc EXCEPT ![p] = "import"]
                        /\ UNCHANGED th_obj_idx
                   ELSE /\ th_counts' = [th_counts EXCEPT ![p] =
                                            Bump(Bump(@, "total"), "failed")]
                        /\ th_obj_idx' = [th_obj_idx EXCEPT ![p] = @ + 1]
                        /\ UNCHANGED th_pc
                /\ UNCHANGED th_source_idx
        /\ UNCHANGED <<par_pc, args, console_ok, fail_mode, th_existing, th_target,
                       kb_error, workflow_error, report>>
        /\ UNCHANGED notPar

\* import_dataset / import_app of the exported object into the target, with
\* skip_existing=False: success adds the name to existing_names, a failure
\* counts failed.
PipelineImport ==
    \E p \in Pipelines, ok \in BOOLEAN :
        /\ th_pc[p] = "import"
        /\ Allowed(p, ok)
        /\ ClientCall(p, TargetClient)
        /\ IF Succeeds(p, TargetClient, ok)
           THEN /\ Counted(p, "success")
                /\ th_existing' = [th_existing EXCEPT ![p] =
                        AddImported(@, ParListing[th_obj_idx[p]])]
                /\ th_target' = [th_target EXCEPT ![p] =
                        @ \cup {ParListing[th_obj_idx[p]]}]
                /\ acc' = [acc EXCEPT !.token = TokenAccess(p, TargetClient),
                                      !.counts[p] = Write(@, p),
                                      !.existing[p] = Write(@, p)]
           ELSE /\ Counted(p, "failed")
                /\ acc' = [acc EXCEPT !.token = TokenAccess(p, TargetClient),
                                      !.counts[p] = Write(@, p)]
                /\ UNCHANGED <<th_existing, th_target>>
        /\ th_obj_idx' = [th_obj_idx EXCEPT ![p] = @ + 1]
        /\ th_pc' = [th_pc EXCEPT ![p] = "object"]
        /\ UNCHANGED <<par_pc, args, console_ok, fail_mode, th_source_idx, kb_error,
                       workflow_error, report>>
        /\ UNCHANGED notPar

NoAccesses ==
    [token |-> [c \in Clients |-> NoAccess],
     counts |-> [p \in Pipelines |-> NoAccess],
     existing |-> [p \in Pipelines |-> NoAccess],
     error |-> [p \in Pipelines |-> NoAccess]]

\* DifyMigration.__init__ has built the clients; nothing has been called
ParFresh ==
    /\ th_pc = [p \in Pipelines |-> "unborn"]
    /\ th_counts = [p \in Pipelines |-> NoCounts]
    /\ th_existing = [p \in Pipelines |-> {}]
    /\ th_source_idx = [p \in Pipelines |-> 1]
    /\ th_obj_idx = [p \in Pipelines |-> 1]
    /\ console_token = [c \in Clients |-> "none"]
    /\ kb_error = "None"
    /\ workflow_error = "None"
    /\ report = [kb |-> "none", wf |-> "none"]
    /\ uses = [p \in Pipelines |-> {}]
    /\ acc = NoAccesses

ParIdle ==
    /\ par_pc = "idle"
    /\ args = [skip_existing |-> TRUE, parallel |-> TRUE,
               migrate_datasets |-> TRUE, migrate_apps |-> TRUE]
    /\ console_ok = TRUE
    /\ fail_mode = [p \in Pipelines |-> "none"]
    /\ th_target = [p \in Pipelines |-> {}]
    /\ ParFresh

ParInit ==
    /\ par_pc = "call"
    /\ args \in [skip_existing : BOOLEAN, parallel : BOOLEAN,
                 migrate_datasets : BOOLEAN, migrate_apps : BOOLEAN]
    /\ console_ok \in BOOLEAN
    /\ fail_mode \in [Pipelines -> FailModes]
    /\ th_target \in [Pipelines -> {{}, {1}}]
    /\ ParFresh

ParNext ==
    \/ migrate_all_with_apps
    \/ kb_thread_start
    \/ workflow_thread_start
    \/ ReportResults
    \/ SequentialPhase1
    \/ SequentialPhase2
    \/ SequentialFinished
    \/ PipelineFetchExisting
    \/ PipelineListSource
    \/ PipelineExport
    \/ PipelineImport

-----------------------------------------------------------------------------
(* Logging during a parallel run.  A logger call hands the record to each  *)
(* handler of the root logger in turn; a handler takes its own lock around *)
(* emit.  ThreadSafeLogger wraps the call in the lock of its instance.     *)

LogThreads == {"KB-Migration", "Workflow-Migration"}

\* logging.basicConfig(handlers=[FileHandler, StreamHandler])
Handlers == <<"FileHandler", "StreamHandler">>

\* ThreadSafeLogger objects: the one get_logger(__name__) returns to
\* dify_client, and the one setup_logging returns; each call of get_logger
\* or setup_logging builds a new object with a new lock
Instances == {"dify_client", "logger_utils"}

\* logging.getLogger(__name__) of dify_migration: no wrapper, no lock
PlainLoggers == {"dify_migration"}

Free == "free"

\* self._lock of the logger object the call goes through, if it has one
HasLock(l) == l \in Instances

\* logger.info / warning / error of dify_migration's module logger
logger_info ==
    \E t \in LogThreads, l \in PlainLoggers :
        /\ lg_pc[t] = "idle"
        /\ lg_count[t] < MaxLines
        /\ lg_via' = [lg_via EXCEPT ![t] = l]
        /\ lg_h' = [lg_h EXCEPT ![t] = 1]
        /\ lg_pc' = [lg_pc EXCEPT ![t] = "handle"]
        /\ UNCHANGED <<lg_count, inst_lock, h_lock>>
        /\ UNCHANGED notLog

\* ThreadSafeLogger.info / warning / error / debug / exception:
\* `with self._lock:` entered, self._logger.<level>(message) begun
ThreadSafeLogger_info ==
    \E t \in LogThreads, l \in Instances :
        /\ lg_pc[t] = "idle"
        /\ lg_count[t] < MaxLines
        /\ inst_lock[l] = Free
        /\ inst_lock' = [inst_lock EXCEPT ![l] = t]
        /\ lg_via' = [lg_via EXCEPT ![t] = l]
        /\ lg_h' = [lg_h EXCEPT ![t] = 1]
        /\ lg_pc' = [lg_pc EXCEPT ![t] = "handle"]
        /\ UNCHANGED <<lg_count, h_lock>>
        /\ UNCHANGED notLog

\* the next handler takes its lock and starts to emit the line
Handler_acquire ==
    \E t \in LogThreads :
        /\ lg_pc[t] = "handle"
        /\ h_lock[Handlers[lg_h[t]]] = Free
        /\ h_lock' = [h_lock EXCEPT ![Handlers[lg_h[t]]] = t]
        /\ lg_pc' = [lg_pc EXCEPT ![t] = "emit"]
        /\ UNCHANGED <<lg_via, lg_h, lg_count, inst_lock>>
        /\ UNCHANGED notLog

\* the handler has written the line and releases its lock; after the last
\* handler the logger call returns and `with self._lock` is left
Handler_emit ==
    \E t \in LogThreads :
        /\ lg_pc[t] = "emit"
        /\ h_lock' = [h_lock EXCEPT ![Handlers[lg_h[t]]] = Free]
        /\ IF lg_h[t] < Len(Handlers)
           THEN /\ lg_h' = [lg_h EXCEPT ![t] = @ + 1]
                /\ lg_pc' = [lg_pc EXCEPT ![t] = "handle"]
                /\ UNCHANGED <<lg_via, lg_count, inst_lock>>
           ELSE /\ lg_h' = [lg_h EXCEPT ![t] = 1]
                /\ lg_pc' = [lg_pc EXCEPT ![t] = "idle"]
                /\ lg_count' = [lg_count EXCEPT ![t] = @ + 1]
                /\ inst_lock' = IF HasLock(lg_via[t])
                                THEN [inst_lock EXCEPT ![lg_via[t]] = Free]
                                ELSE inst_lock
                /\ lg_via' = [lg_via EXCEPT ![t] = "none"]
        /\ UNCHANGED notLog

LogInit ==
    /\ lg_pc = [t \in LogThreads |-> "idle"]
    /\ lg_via = [t \in LogThreads |-> "none"]
    /\ lg_h = [t \in LogThreads |-> 1]
    /\ lg_count = [t \in LogThreads |-> 0]
    /\ inst_lock = [l \in Instances |-> Free]
    /\ h_lock = [h \in {Handlers[i] : i \in 1..Len(Handlers)} |-> Free]

LogNext ==
    \/ logger_info
    \/ ThreadSafeLogger_info
    \/ Handler_acquire
    \/ Handler_emit

-----------------------------------------------------------------------------
(* Specifications                                                          *)

ReqNext == MakeRequest \/ SendVerified \/ SendFallback
PageNext == GetAll \/ ListPage
MgNext ==
    \/ migrate_all
    \/ migrate_all_apps
    \/ KbFetchExisting
    \/ WfFetchExisting
    \/ KbListSource
    \/ WfListSource
    \/ KbNextObject
    \/ WfNextObject
    \/ export_dataset
    \/ export_app
    \/ import_dataset
    \/ create_dataset
    \/ _import_document
    \/ import_app
    \/ import_app_dsl
    \/ export_all_datasets
    \/ export_all_apps
    \/ BatchSourceDone
    \/ _migrate_batch
    \/ _migrate_apps_batch

-----------------------------------------------------------------------------
(* DifyClient: the console session.  list_apps, export_app_dsl and         *)
(* import_app_dsl call _ensure_console_login and then send one request     *)
(* carrying the cached token.                                              *)

ConsoleOps == {"list_apps", "export_app_dsl", "import_app_dsl"}

\* what the login endpoint answers: a token, a 200 without access_token, a
\* 401, or no answer at all
LoginResponses == {"token", "no_token", "h401", "conn"}

\* what a console endpoint answers
CallResponses == {"ok", "h401", "h500", "conn"}

NeedsLogin_Always(token) == TRUE

\* `if not self.console_access_token` of _ensure_console_login
NeedsLogin(token) == token = 0

\* A console operation is requested.  _ensure_console_login calls
\* console_login when no token is cached, and console_login raises
\* ValueError before any request when email or password is missing.
_ensure_console_login ==
    /\ cs_pc = "idle"
    /\ cs_ops < MaxOps
    /\ \E op \in ConsoleOps : cs_op' = op
    /\ cs_ops' = cs_ops + 1
    /\ token_found' = console_access_token
    /\ cs_sent' = <<>>
    /\ IF NeedsLogin(console_access_token)
       THEN IF has_credentials
            THEN cs_pc' = "login" /\ cs_result' = "none"
            ELSE cs_pc' = "idle" /\ cs_result' = "ValueError"
       ELSE cs_pc' = "call" /\ cs_result' = "none"
    /\ UNCHANGED <<has_credentials, console_access_token>>
    /\ UNCHANGED notConsole

\* console_login: the POST to /console/api/login.  The token is stored only
\* when the response carries one; otherwise the error leaves the operation.
console_login ==
    /\ cs_pc = "login"
    /\ \E resp \in LoginResponses :
        /\ cs_sent' = Append(cs_sent, [req |-> "login", verify |-> TRUE, resp |-> resp])
        /\ IF resp = "token"
           THEN /\ console_access_token' = cs_ops
                /\ cs_pc' = "call"
                /\ UNCHANGED cs_result
           ELSE /\ cs_result' = IF resp = "no_token" THEN "ValueError"
                                ELSE "RequestException"
                /\ cs_pc' = "idle"
                /\ UNCHANGED console_access_token
    /\ UNCHANGED <<cs_op, has_credentials, token_found, cs_ops>>
    /\ UNCHANGED notConsole

\* The request of the operation itself, with the Bearer token, sent with
\* requests.get/post and no verify argument (certificate validation on).  Any
\* failure is logged and re-raised; the token stays as it is.
ConsoleRequest ==
    /\ cs_pc = "call"
    /\ \E resp \in CallResponses :
        /\ cs_sent' = Append(cs_sent, [req |-> cs_op, verify |-> TRUE, resp |-> resp])
        /\ cs_result' = IF resp = "ok" THEN "ok" ELSE "RequestException"
    /\ cs_pc' = "idle"
    /\ UNCHANGED <<cs_op, has_credentials, console_access_token, token_found, cs_ops>>
    /\ UNCHANGED notConsole

list_apps == cs_op = "list_apps" /\ ConsoleRequest

export_app_dsl == cs_op = "export_app_dsl" /\ ConsoleRequest

ConsoleImportRequest == cs_op = "import_app_dsl" /\ ConsoleRequest

\* no console operation has been requested of the client
NoSession ==
    /\ cs_pc = "idle"
    /\ cs_op = "none"
    /\ console_access_token = 0
    /\ token_found = 0
    /\ cs_sent = <<>>
    /\ cs_result = "none"
    /\ cs_ops = 0

ConsoleIdle == has_credentials = TRUE /\ NoSession

\* DifyClient.__init__: console_access_token = None
ConsoleInit == has_credentials \in BOOLEAN /\ NoSession

ConsoleNext ==
    \/ _ensure_console_login
    \/ console_login
    \/ list_apps
    \/ export_app_dsl
    \/ ConsoleImportRequest

ReqInit == ReqIdle /\ PageIdle /\ MgIdle /\ ParIdle /\ LogInit /\ ConsoleIdle
PagingInit == ReqIdle /\ PageInit /\ MgIdle /\ ParIdle /\ LogInit /\ ConsoleIdle
Init == ReqIdle /\ PageIdle /\ MgInit /\ ParIdle /\ LogInit /\ ConsoleIdle
Next == MgNext

SpecRequest == ReqInit /\ [][ReqNext]_vars

\* Service API calls and console operations of one client, in any order.
TransportNext == ReqNext \/ ConsoleNext
SpecTransport == ReqInit /\ [][TransportNext]_vars

SpecPaging == PagingInit /\ [][PageNext]_vars

Spec == Init /\ [][Next]_vars

CompareNext == MgNext \/ RunBatchOnSameInput

CompareStart == ReqIdle /\ PageIdle /\ CompareInit /\ ParIdle /\ LogInit /\ ConsoleIdle

SpecCompare == CompareStart /\ [][CompareNext]_vars

SourcesStart == ReqIdle /\ PageIdle /\ SourcesInit /\ ParIdle /\ LogInit /\ ConsoleIdle

SpecSources == SourcesStart /\ [][MgNext]_vars

\* The orchestrators are straight-line code and loops run by one thread:
\* as long as a step of the run is possible, one is taken.
OneRunStart == ReqIdle /\ PageIdle /\ OneRunInit /\ ParIdle /\ LogInit /\ ConsoleIdle

FairSpec == OneRunStart /\ [][MgNext]_vars /\ WF_vars(MgNext)

ImportStart == ReqIdle /\ PageIdle /\ ImportInit /\ ParIdle /\ LogInit /\ ConsoleIdle

SpecImport == ImportStart /\ [][ImportNext]_vars

ParStart == ReqIdle /\ PageIdle /\ MgIdle /\ ParInit /\ LogInit /\ ConsoleIdle

SpecParallel == ParStart /\ [][ParNext]_vars

LogStart == ReqIdle /\ PageIdle /\ MgIdle /\ ParIdle /\ LogInit /\ ConsoleIdle

SpecLogging == LogStart /\ [][LogNext]_vars

ConsoleStart == ReqIdle /\ PageIdle /\ MgIdle /\ ParIdle /\ LogInit /\ ConsoleInit

SpecConsole == ConsoleStart /\ [][ConsoleNext]_vars

BackupStart == ReqIdle /\ PageIdle /\ BackupInit /\ ParIdle /\ LogInit /\ ConsoleIdle

SpecBackup == BackupStart /\ [][BackupNext]_vars
-----------------------------------------------------------------------------
(* Claims about _make_request (SpecRequest)                                *)

ReqDone == rq_pc \in {"returned", "raised"}
First500(k) == \A i \in 1..k : reqlog[i] = [verify |-> TRUE, resp |-> "h500"]

\* C1: with the default max_retries = 3, a server answering 500 to every
\* attempt gets exactly 4 requests and the 500 error then leaves the call;
\* 500 on the first k attempts (0 <= k <= 3) and success on attempt k+1
\* gives exactly k+1 requests and a successful return.
C1_RetryBound ==
    max_retries = MAX_RETRIES =>
        /\ First500(Len(reqlog)) =>
              /\ Len(reqlog) <= MAX_RETRIES + 1
              /\ ReqDone <=> Len(reqlog) = MAX_RETRIES + 1
              /\ ReqDone => rq_pc = "raised" /\ raised.err = "h500"
        /\ \A k \in 0..MAX_RETRIES :
              (/\ Len(reqlog) >= k + 1
               /\ First500(k)
               /\ reqlog[k + 1] = [verify |-> TRUE, resp |-> "ok"])
              => Len(reqlog) = k + 1 /\ rq_pc = "returned" /\ raised = NoError

C1_Witness ==
    /\ max_retries = MAX_RETRIES
    /\ rq_pc = "raised"
    /\ Len(reqlog) = MAX_RETRIES + 1
    /\ First500(Len(reqlog))

\* C2: a non-2xx status other than 500 (4xx, 502, 503) is never retried:
\* it is the last request of its call and its error leaves the call at once.
C2_NoRetryOnOtherStatus ==
    \A i \in 1..Len(reqlog) :
        reqlog[i].resp \in HTTPErrors \ {"h500"} =>
            /\ i = Len(reqlog)
            /\ rq_pc = "raised"
            /\ raised.err = reqlog[i].resp

C2_Witness ==
    /\ rq_pc = "raised"
    /\ Len(reqlog) = 2
    /\ reqlog[1] = [verify |-> TRUE, resp |-> "h500"]
    /\ reqlog[2] = [verify |-> TRUE, resp |-> "h503"]
    /\ max_retries = MAX_RETRIES

Unverified == {i \in 1..Len(reqlog) : ~reqlog[i].verify}

\* C3: a TLS failure of a verified request is followed by exactly one request
\* with validation disabled; its success is returned, its failure (HTTP 500
\* included) leaves the call with no further request.
C3_SingleTlsFallback ==
    /\ Cardinality(Unverified) <= 1
    /\ \A i \in Unverified : i > 1 /\ reqlog[i - 1] = [verify |-> TRUE, resp |-> "ssl"]
    /\ \A i \in 1..Len(reqlog) :
          (reqlog[i].verify /\ reqlog[i].resp = "ssl") =>
              \/ i = Len(reqlog) /\ rq_pc = "fallback"
              \/ /\ i + 1 = Len(reqlog)
                 /\ ~reqlog[i + 1].verify
                 /\ IF reqlog[i + 1].resp = "ok"
                    THEN rq_pc = "returned" /\ raised = NoError
                    ELSE rq_pc = "raised" /\ raised.err = reqlog[i + 1].resp

C3_Witness ==
    /\ rq_pc = "raised"
    /\ Len(reqlog) = 3
    /\ reqlog[1].resp = "h500"
    /\ reqlog[2] = [verify |-> TRUE, resp |-> "ssl"]
    /\ reqlog[3] = [verify |-> FALSE, resp |-> "h500"]

\* every retry has been used: max_retries + 1 verified requests, all
\* answered 500
Exhausted == rq_pc = "raised" /\ Len(reqlog) = max_retries + 1 /\ First500(Len(reqlog))

\* C34: when all retries of a request are exhausted, the error that
\* reaches the caller is the one of the final attempt, and it is tagged
\* with the number of attempts made.
C34_LastErrorTaggedWithAttempts ==
    Exhausted =>
        /\ raised.err = reqlog[Len(reqlog)].resp
        /\ raised.attempts = Len(reqlog)

\* what does hold: the error of the final attempt reaches the caller
ExhaustedRaisesLastError ==
    Exhausted => raised.err = reqlog[Len(reqlog)].resp /\ raised.attempts = 0

\* C38: one call sends at most max_retries + 2 requests: at most
\* max_retries + 1 verified attempts and at most one unverified fallback,
\* whatever mix of 500 answers, TLS failures and other errors it meets; and
\* it ends by returning the answer of its last request or by raising the
\* error of its last request from inside the loop (the code after the loop
\* is not reached).
C38_AtMostRetriesPlusTwoRequests ==
    /\ Len(reqlog) <= max_retries + 2
    /\ Len(SelectSeq(reqlog, LAMBDA q : q.verify)) <= max_retries + 1
    /\ Len(SelectSeq(reqlog, LAMBDA q : ~q.verify)) <= 1
    /\ rq_pc = "returned" => reqlog[Len(reqlog)].resp = "ok" /\ raised = NoError
    /\ rq_pc = "raised" =>
          /\ raised.err = reqlog[Len(reqlog)].resp
          /\ raised.err # "ok"
          /\ raised.via \in {"loop", "fallback"}
    /\ rq_pc \in {"attempt", "fallback"} => raised = NoError

C38_Witness ==
    /\ rq_pc = "raised"
    /\ max_retries = MAX_RETRIES
    /\ Len(reqlog) = MAX_RETRIES + 2
    /\ reqlog[MAX_RETRIES + 1] = [verify |-> TRUE, resp |-> "ssl"]
    /\ reqlog[MAX_RETRIES + 2] = [verify |-> FALSE, resp |-> "conn"]
    /\ raised.via = "fallback"

Backoffs == SelectSeq(sleeps, LAMBDA z : z.why = "backoff")
Verified == SelectSeq(reqlog, LAMBDA q : q.verify)

\* C33: the wait before the k-th retry after a 500 is the base delay times
\* 2^(k-1) (2, 4, 8 seconds with the default base of 2): the first wait is
\* the base delay and every later one doubles the one before.  A wait
\* follows only a 500 answer to a verified request that is retried: none
\* follows the last request of a call, and none a non-500 error.
C33_BackoffDoublesNoneAfterLast ==
    /\ \A k \in 1..Len(Backoffs) :
          /\ Backoffs[k].ms = IF k = 1 THEN RETRY_DELAY ELSE 2 * Backoffs[k - 1].ms
          /\ Verified[k].resp = "h500"
    /\ Len(Backoffs) <= max_retries
    /\ Len(Backoffs) = Len(Verified) - (IF rq_pc = "attempt" \/ Verified = <<>> THEN 0 ELSE 1)
    /\ Len(Backoffs) = 3 =>
          <<Backoffs[1].ms, Backoffs[2].ms, Backoffs[3].ms>> = <<2000, 4000, 8000>>

C33_Witness ==
    /\ rq_pc = "raised"
    /\ max_retries = 3
    /\ Len(Verified) = 4
    /\ raised.err = "h500"
    /\ Len(sleeps) = 3
    /\ sleeps[3] = [why |-> "backoff", ms |-> 8000]

-----------------------------------------------------------------------------
(* Claims about the pagination loops (SpecPaging)                          *)

RECURSIVE ConcatPages(_)
ConcatPages(k) == IF k = 0 THEN <<>> ELSE ConcatPages(k - 1) \o ServerPage(k).data

\* has_more is true on pages 1..N-1 and false on page N
WellFormed ==
    \A p \in 1..Len(server) :
        server[p].has_more = (IF p < Len(server) THEN "true" ELSE "false")

\* C4: against a server with has_more=true on pages 1..N-1 and false on
\* page N, each get_all_* requests exactly pages 1..N and returns the
\* concatenation of the N pages' items, each once, in page order.
C4_ListAllConcatenates ==
    WellFormed =>
        /\ Len(requested) <= Len(server)
        /\ \A i \in 1..Len(requested) : requested[i] = i
        /\ pg_pc = "returned" =>
              /\ Len(requested) = Len(server)
              /\ all_items = ConcatPages(Len(server))

C4_Witness ==
    /\ WellFormed
    /\ pg_pc = "returned"
    /\ collection = "apps"
    /\ Len(server) = MaxPages
    /\ Len(all_items) >= 2

LastFlag == ServerPage(requested[Len(requested)]).has_more

\* C5 as stated: pages are requested 1, 2, 3, ... and a listing returns only
\* on a has_more flag that is present and false.
C5_StopsOnlyOnExplicitFalse ==
    /\ \A i \in 1..Len(requested) : requested[i] = i
    /\ pg_pc = "returned" => LastFlag = "false"

\* C5 amended: pages are requested 1, 2, 3, ...; the loop goes on to the next
\* page exactly when has_more is true and returns when it is false or absent
\* (a missing flag reads as "no more"); an empty page does not end it.
C5_StopsOnFalseOrMissing ==
    /\ \A i \in 1..Len(requested) : requested[i] = i
    /\ \A i \in 1..(Len(requested) - 1) : ServerPage(i).has_more = "true"
    /\ pg_pc = "returned" => LastFlag \in {"false", "missing"}
    /\ (pg_pc = "loop" /\ requested # <<>>) =>
            LastFlag = "true" /\ page = Len(requested) + 1

C5_Witness ==
    /\ pg_pc = "returned"
    /\ Len(requested) = 2
    /\ Len(server) = 3
    /\ server[1] = [n |-> 0, has_more |-> "true"]
    /\ server[2].has_more = "missing"

-----------------------------------------------------------------------------
(* Claims about the migration runs (Spec)                                  *)

Increased(n) == created'[n] > created[n]

\* C6: within one run, once a dataset or app name has been observed to
\* exist in the target (by the initial listing or by an existence check of
\* import_dataset / import_app), no create request for that name
\* (create_dataset, import_app_dsl) is issued, whatever the flags are.
C6_NoCreateOnceObserved ==
    [][\A n \in Names : Increased(n) => n \notin observed]_vars

\* the names the sources have listed, and how many objects that is
Listed == UNION {{src_objects[s][i] : i \in 1..Len(src_objects[s])} :
                 s \in {t \in 1..Len(src_objects) : src_objects[t] # Unknown}}
ListedCount == KnownObjects(src_objects, Len(src_objects))

\* C7: a streaming dataset migration with skip_existing and auto_create in
\* which no request failed ends with: every listed name that was not in the
\* target at the start created exactly once and counted as a success, every
\* other listed dataset counted skipped with nothing written for its name,
\* and failed = 0.
C7_StreamingSkipsExistingCreatesRest ==
    (kind = "datasets" /\ streaming /\ skip_existing /\ auto_create
     /\ mg_pc = "done" /\ clean)
    => LET fresh == Listed \ tgt0 IN
       /\ counts.total = ListedCount
       /\ counts.success = Cardinality(fresh)
       /\ counts.skipped = counts.total - counts.success
       /\ counts.failed = 0
       /\ \A n \in Names : created[n] = IF n \in fresh THEN 1 ELSE 0
       /\ wrote \subseteq fresh
       /\ TargetNames(tgt_objects) = tgt0 \cup fresh

\* source [A, B], target [A]: only B is created; total=2, success=1,
\* skipped=1, failed=0
C7_Witness ==
    /\ kind = "datasets" /\ streaming /\ skip_existing /\ auto_create
    /\ mg_pc = "done" /\ clean /\ run = 1
    /\ src_objects[1] = <<"A", "B">>
    /\ tgt0 = {"A"}
    /\ counts = [total |-> 2, success |-> 1, skipped |-> 1, failed |-> 0]
    /\ created = [n \in Names |-> IF n = "B" THEN 1 ELSE 0]
    /\ last.name = "B" /\ last.writes > 1

\* C8: after a run with skip_existing that had no failed request and no
\* failed object, the same migration run again (also without a failed
\* request) issues no create_dataset, create_document_by_text or
\* import_app_dsl request and ends with skipped = total, success = 0 and
\* failed = 0, in streaming and in batch mode.
C8_SecondRunOnlySkips ==
    (run >= 2 /\ prev_clean /\ skip_existing /\ mg_pc = "done" /\ clean)
    => /\ \A n \in Names : created[n] = 0
       /\ wrote = {}
       /\ counts.skipped = counts.total
       /\ counts.success = 0
       /\ counts.failed = 0

\* the second run of a batch migration whose first run created A and B
C8_Witness ==
    /\ run = 2 /\ prev_clean /\ skip_existing /\ mg_pc = "done" /\ clean
    /\ ~streaming
    /\ tgt_objects = [n \in Names |-> 1]
    /\ counts = [total |-> 2, success |-> 0, skipped |-> 2, failed |-> 0]
    /\ wrote = {}

AtSkippable ==
    /\ mg_pc = "object"
    /\ obj_idx <= Len(all_objects)
    /\ skip_existing
    /\ all_objects[obj_idx] \in existing_names

C10_AbsentWithoutAutoCreateFails ==
    last.why = "absent_no_auto_create"
    => (last.counted = "failed" /\ last.writes = 0)

\* the step of import_dataset that has listed the target and found the
\* export unit's name in it, with a false skip_existing argument
ReuseStep ==
    /\ kind = "datasets"
    /\ mg_pc = "imp_check"
    /\ export_data.name \in TargetNames(tgt_objects)
    /\ ~ImportSkipArg
    /\ last'.why # "target_listing_failed"

\* C11: when the dataset name exists in the target and skip_existing is
\* false, import_dataset issues no create_dataset request, takes the
\* existing dataset's id, goes through every document of the export unit
\* and sends each document that has content to that id.
C11_ReusesExistingDataset ==
    [][/\ ReuseStep
          => /\ mg_pc' = "imp_docs"
             /\ new_dataset_id' = ExistingId(export_data.name)
             /\ created' = created /\ tgt_objects' = tgt_objects
       /\ (kind = "datasets" /\ mg_pc = "imp_docs")
          => /\ created' = created /\ tgt_objects' = tgt_objects
             /\ new_dataset_id' \in {new_dataset_id, NoId}
             /\ mg_pc' # "imp_docs" => idx > export_data.docs
             /\ idx' = idx + 1
                => /\ ~last_doc'.all_empty => last_doc'.sent
                   /\ last_doc'.sent => last_doc'.dest = new_dataset_id
      ]_vars

\* a document has been written into the dataset that was already there
C11_Witness ==
    /\ kind = "datasets" /\ ~skip_existing /\ mg_pc = "imp_docs"
    /\ export_data.name \in tgt0
    /\ created[export_data.name] = 0
    /\ new_dataset_id = ExistingId(export_data.name)
    /\ last_doc.sent /\ ~last_doc.raised /\ last_doc.dest = new_dataset_id
    /\ idx > export_data.docs

C13_EmptyDocumentIsNoOp ==
    last_doc.all_empty => (~last_doc.sent /\ ~last_doc.raised)

\* C14: a document whose import was a no-op is not counted in
\* import_dataset's success_count.
C14_NoOpDocumentNotCounted ==
    [][(mg_pc = "imp_docs" /\ idx' = idx + 1 /\ ~last_doc'.sent)
       => success_count' = success_count]_vars

\* the ways the export or the import of an object raises
ObjectFailures ==
    {"export_failed", "target_listing_failed", "create_dataset_failed",
     "import_app_dsl_failed"}

\* C20: a failure while exporting or importing one object increments the
\* failed counter by exactly one and does not abort the pipeline: the loop
\* goes on with the next object.
C20_ObjectFailureCountsFailed ==
    [][last'.why \in ObjectFailures /\ last' # last
       => /\ counts'.failed = counts.failed + 1
          /\ mg_pc' \in {"object", "b_export", "b_import"}
          /\ obj_idx' = obj_idx + 1]_vars

-----------------------------------------------------------------------------
(* Claims about the two strategies on the same input (SpecCompare)         *)

\* C15: for the same sources, initial target, flags and request failures,
\* the batch run ends with the same objects in the target and the same
\* summary counters as the streaming run, also when an export fails.
C15_StrategiesAgree ==
    (saved.set /\ mg_pc = "done")
    => (counts = saved.counts /\ tgt_objects = saved.target)

-----------------------------------------------------------------------------
(* Claims about the run of both pipelines (SpecParallel)                   *)

\* every request of the app pipeline fails, every request of the dataset
\* pipeline succeeds, and the parallel run has logged its results
AppsFailDatasetsSucceed ==
    /\ par_pc = "reported"
    /\ InParallel
    /\ fail_mode = [kb |-> "none", wf |-> "all"]

\* the dataset pipeline has counted every listed dataset as success, or as
\* skipped when its name was already in the target
DatasetsUnaffected ==
    /\ th_counts["kb"].total = ParSources * ParObjects
    /\ th_counts["kb"].failed = 0
    /\ th_counts["kb"].success + th_counts["kb"].skipped = th_counts["kb"].total
    /\ \A i \in 1..ParObjects : ParListing[i] \in th_target["kb"]

\* C16: in parallel mode, when every app operation fails and every dataset
\* operation succeeds, the dataset pipeline still counts Success for its
\* objects and the final report gives the app pipeline a failure status
\* distinct from the dataset pipeline's status.
C16_AppFailureReportedDatasetsUnaffected ==
    AppsFailDatasetsSucceed
    => /\ DatasetsUnaffected
       /\ report["kb"] = "SUCCESS"
       /\ report["wf"] = "FAILED"

\* C17: a pipeline-level fatal condition, the console login failing on every
\* console call of the app pipeline, is recorded as that pipeline's error
\* and reported as FAILED.
C17_LoginFailureReportedFailed ==
    (par_pc = "reported" /\ InParallel /\ ~console_ok)
    => (workflow_error # "None" /\ report["wf"] = "FAILED")

Accesses ==
    {acc.token[c] : c \in Clients} \cup {acc.counts[p] : p \in Pipelines}
    \cup {acc.existing[p] : p \in Pipelines} \cup {acc.error[p] : p \in Pipelines}

Running(p) == th_pc[p] \notin {"unborn", "finished"}

\* C29: in sequential mode the dataset migration has run to completion
\* before the app migration sends its first request, the two never run at
\* the same time (one thread of control), and the app migration is run
\* whatever failed in the dataset migration.
C29_SequentialDatasetsThenApps ==
    (~InParallel /\ par_pc # "idle") =>
        /\ (th_pc["wf"] # "unborn" \/ uses["wf"] # {}) =>
               th_pc["kb"] = (IF args.migrate_datasets THEN "finished" ELSE "unborn")
        /\ ~(Running("kb") /\ Running("wf"))
        /\ (par_pc = "reported" /\ args.migrate_apps) => th_pc["wf"] = "finished"
        /\ (par_pc = "reported" /\ args.migrate_datasets) => th_pc["kb"] = "finished"

C29_Witness ==
    /\ ~args.parallel
    /\ args.migrate_datasets
    /\ args.migrate_apps
    /\ par_pc = "reported"
    /\ fail_mode["kb"] = "all"
    /\ th_counts["kb"].success = 0
    /\ th_counts["wf"].success > 0

\* C30: in parallel mode exactly two pipelines are started, the dataset
\* one and the app one, and the results are reported and the call returns
\* only after both have terminated, whichever ends first and whatever
\* failed in either.
C30_ReportOnlyAfterBothPipelines ==
    InParallel =>
        /\ par_pc \in {"joining", "reported"} => \A p \in Pipelines : th_pc[p] # "unborn"
        /\ par_pc = "reported" => \A p \in Pipelines : th_pc[p] = "finished"
        /\ par_pc \in {"idle", "call", "created"} => \A p \in Pipelines : th_pc[p] = "unborn"

C30_Witness ==
    /\ InParallel
    /\ par_pc = "reported"
    /\ fail_mode["wf"] = "all"
    /\ th_counts["wf"].total = 0
    /\ th_counts["kb"].success = ParObjects
    /\ \A p \in Pipelines : th_pc[p] = "finished"

-----------------------------------------------------------------------------
(* Claims about logging from two threads (SpecLogging)                     *)

Emitting == {t \in LogThreads : lg_pc[t] = "emit"}

\* C19: at any moment at most one thread is inside the log sink emitting a
\* line, across every logger instance the pipelines and the client use.
C19_OneThreadInSink == Cardinality(Emitting) <= 1

-----------------------------------------------------------------------------
(* Claims about the loop over the sources (SpecSources)                    *)

FailedSources == pattern.fail_listing \cap (1..Len(src_objects))

\* C21: when the listing call of a source fails, the objects of that source
\* and only of that source are left out of the run: every other source is
\* listed and each of its objects is processed (counted once, as success,
\* skipped or failed), and the run goes on to its summary.
C21_FailedListingLeavesOutOnlyThatSource ==
    /\ mg_pc \notin {"idle", "done"} => ENABLED MgNext
    /\ mg_pc = "done" =>
          /\ \A s \in 1..Len(src_objects) :
                 (src_objects[s] = Unknown) <=> (s \in FailedSources)
          /\ counts.total = ListedCount
          /\ counts.success + counts.skipped + counts.failed = counts.total

C21_Witness ==
    /\ mg_pc = "done"
    /\ 1 \in FailedSources
    /\ src_objects[1] = Unknown
    /\ \E s \in 2..Len(src_objects) : src_objects[s] # Unknown /\ Len(src_objects[s]) > 0
    /\ counts.success > 0

\* the object the step starts to work on (export in the streaming and the
\* export loops, import in the import loop of the batch orchestrators)
Taken(unit) ==
    /\ unit # NoUnit
    /\ unit.name = IF mg_pc = "b_import" THEN exported_data[obj_idx].name
                   ELSE src_objects[source_idx][obj_idx]

\* C26: within one pipeline the sources are visited in configuration order
\* and the objects of a source in the order of its listing (the import loop
\* of the batch orchestrators follows the order of the exports); within one
\* dataset import the documents are sent in the order of the export unit;
\* and a step writes at most one object or document.
C26_ListingOrderOneAtATime ==
    [][/\ source_idx' # source_idx => source_idx' = source_idx + 1 /\ obj_idx' = 1
       /\ obj_idx' # obj_idx => obj_idx' = obj_idx + 1 \/ obj_idx' = 1
       /\ export_data' # export_data => export_data' = NoUnit \/ Taken(export_data')
       /\ exported_data' # exported_data =>
              \E unit \in {exported_data'[Len(exported_data')]} :
                  Taken(unit) /\ exported_data' = Append(exported_data, unit)
       /\ idx' # idx => idx' = idx + 1 \/ idx' = 1
       /\ obj_calls'.writes > obj_calls.writes =>
              /\ obj_calls'.writes = obj_calls.writes + 1
              /\ mg_pc = "imp_docs" => idx' = idx + 1
       /\ \A n \in Names : created'[n] <= created[n] + 1
       /\ Cardinality({n \in Names : created'[n] # created[n]}) <= 1
      ]_vars

C26_Witness ==
    /\ source_idx = 2
    /\ obj_idx = 2
    /\ mg_pc = "imp_docs"
    /\ idx = 2
    /\ last_doc.sent
    /\ obj_calls.writes > 0

-----------------------------------------------------------------------------
(* Claims about the order of exports and imports (Spec)                    *)

Exporting == mg_pc \in {"b_source", "b_export"}
Importing == mg_pc \in {"b_import", "imp_check", "imp_create", "imp_docs", "imp_dsl"}

C32_ExportSendsDocsPlusOne ==
    (kind = "datasets" /\ streaming /\ mg_pc = "imp_check") =>
        obj_calls.src = export_data.docs + 1

\* what the export does send: the dataset listing, the document listing and
\* one segment fetch per document
ExportSendsTwoListingsAndOnePerDocument ==
    (kind = "datasets" /\ streaming /\ mg_pc = "imp_check") =>
        obj_calls.src = export_data.docs + 2

Handled == counts.success + counts.skipped + counts.failed

\* C28: in the streaming strategy an object that is not skipped is
\* exported, its export unit is written to storage, and then it is
\* imported, in that order; the import of an object has ended (counted
\* success, skipped or failed) before the export of the next one begins,
\* and at most one export unit is held.
C28_StreamingExportStoreImport ==
    (streaming /\ run > 0) =>
        /\ exported_data = <<>>
        /\ Importing => /\ export_data # NoUnit
                        /\ export_data.name = all_objects[obj_idx]
                        /\ obj_calls.src > 0
                        /\ obj_calls.stored
        /\ mg_pc = "export" => /\ export_data = NoUnit
                               /\ obj_calls = NoCalls
        /\ Handled = counts.total - (IF Importing \/ mg_pc = "export" THEN 1 ELSE 0)

C28_Witness ==
    /\ streaming
    /\ mg_pc = "export"
    /\ obj_idx = 2
    /\ counts.total = 2
    /\ counts.success = 1
    /\ wrote = {all_objects[1]}

-----------------------------------------------------------------------------
(* Claims about termination (FairSpec)                                     *)

\* C22: every request returning or failing in finite time, every run of
\* migrate_all and migrate_all_apps, streaming or batch, eventually reaches
\* its summary, whatever subset of its requests fails.
C22_EveryRunReachesSummary == (mg_pc # "idle") ~> (mg_pc = "done")

C22_Witness ==
    /\ mg_pc = "done"
    /\ ~clean
    /\ counts.failed > 0
    /\ counts.success > 0

-----------------------------------------------------------------------------
(* Claims about the console session of a client (SpecConsole)              *)

Requests(kind_of) == {i \in 1..Len(cs_sent) : kind_of[cs_sent[i].req]}
IsLogin == [r \in ConsoleOps \cup {"login"} |-> r = "login"]
IsCall == [r \in ConsoleOps \cup {"login"} |-> r # "login"]
Finished == cs_pc = "idle" /\ cs_ops > 0

\* C23: a 401 answer to a console call (list_apps, export_app_dsl,
\* import_app_dsl) is followed by exactly one new login and, when that login
\* succeeds, by one retry of the call; the operation ends in an error only
\* after the retry.
C23_UnauthorizedCallReLoginsOnceAndRetries ==
    Finished =>
        \A i \in Requests(IsCall) :
            (cs_sent[i].resp = "h401" /\ i = CHOOSE j \in Requests(IsCall) : \A k \in Requests(IsCall) : j <= k) =>
                /\ Len(cs_sent) > i
                /\ cs_sent[i + 1].req = "login"
                /\ cs_sent[i + 1].resp = "token" =>
                       /\ Len(cs_sent) = i + 2
                       /\ cs_sent[i + 2].req = cs_op

\* C24: a client sends a login request when and only when a console
\* operation is requested while no token is cached (and the credentials are
\* configured): once a login has succeeded later operations send no login
\* and keep the token; a failed or rejected login leaves the token unset
\* and ends the operation; without credentials the operation fails with no
\* request sent at all.
C24_LoginOnlyWithoutCachedToken ==
    /\ cs_pc = "login" => token_found = 0 /\ has_credentials /\ cs_sent = <<>>
    /\ cs_pc = "call" => console_access_token # 0
    /\ Finished =>
        /\ Cardinality(Requests(IsLogin)) =
               (IF token_found = 0 /\ has_credentials THEN 1 ELSE 0)
        /\ token_found # 0 => console_access_token = token_found
        /\ (token_found = 0 /\ ~has_credentials) =>
               cs_sent = <<>> /\ cs_result = "ValueError"
        /\ \A i \in Requests(IsLogin) : cs_sent[i].resp # "token" =>
               /\ console_access_token = 0
               /\ Len(cs_sent) = 1
               /\ cs_result \in {"ValueError", "RequestException"}

C24_Witness ==
    /\ Finished
    /\ cs_ops > 1
    /\ token_found # 0
    /\ token_found < cs_ops
    /\ Len(cs_sent) = 1
    /\ cs_sent[1].req = cs_op
    /\ cs_result = "ok"

-----------------------------------------------------------------------------
(* Claims about the import of an export unit on its own (SpecImport)       *)

\* the characters of the segments' contents, one segment after the other
RECURSIVE Flat(_)
Flat(segments) ==
    IF segments = <<>> THEN <<>>
    ELSE Chars(IF Head(segments) > 0 THEN Head(segments) ELSE 0) \o Flat(Tail(segments))

Newlines(text) == Len(SelectSeq(text, LAMBDA c : c = 0))
HasContent(segments) == \E i \in 1..Len(segments) : segments[i] > 0

\* the text of the request sent for the last document: without its
\* newlines it is the contents in their order, it holds one blank-line
\* separator for every two consecutive segments that carry a content, and
\* none before the first or after the last of them
C31_Concatenated ==
    last_doc.sent =>
        /\ SelectSeq(last_doc.text, LAMBDA c : c # 0) = Flat(last_doc.segments)
        /\ Newlines(last_doc.text) = 2 * (Len(WithContent(last_doc.segments)) - 1)
        /\ LET parts == WithContent(last_doc.segments)
               text == last_doc.text
           IN  /\ Head(parts) > 0 => Head(text) # 0
               /\ parts[Len(parts)] > 0 => text[Len(text)] # 0

\* C31: importing one document that has content sends exactly one
\* create_document_by_text request, whose text is the contents of the
\* document's segments in their returned order with a blank-line separator
\* between consecutive segments; nothing else is written for the document.
C31_OneRequestWithJoinedText ==
    [][(mg_pc = "imp_docs" /\ idx' = idx + 1) =>
          /\ HasContent(last_doc'.segments) =>
                 /\ last_doc'.sent
                 /\ obj_calls'.writes = obj_calls.writes + 1
                 /\ obj_calls'.tgt = obj_calls.tgt + 1
          /\ C31_Concatenated'
          /\ tgt_objects' = tgt_objects
      ]_vars

C31_Witness ==
    /\ last_doc.sent
    /\ ~last_doc.raised
    /\ last_doc.segments = <<2, 1>>
    /\ last_doc.text = <<2, 2, 0, 0, 1>>
    /\ obj_calls.writes >= 1

\* C25: importing a dataset from an export unit read back from its file
\* (import_from_file -> import_dataset) sends requests to the target
\* instance only: no request goes to a source instance.
C25_ImportContactsTargetOnly == obj_calls.src = 0

C25_Witness ==
    /\ ~streaming
    /\ mg_pc = "imp_docs"
    /\ obj_calls.tgt > 1
    /\ obj_calls.writes > 0
    /\ obj_calls.src = 0


\* C39: certificate validation is switched off only for the single fallback
\* request sent right after a TLS failure of the same call; the first request
\* of every call, every retry after an HTTP 500 and every console request
\* are sent with validation on.
C39_ValidationOffOnlyForTheFallback ==
    /\ \A i \in 1..Len(reqlog) :
          reqlog[i].verify <=> ~(i > 1 /\ reqlog[i - 1].resp = "ssl")
    /\ \A i \in Unverified : i = Len(reqlog)
    /\ Len(reqlog) >= 1 => reqlog[1].verify
    /\ \A i \in 2..Len(reqlog) : reqlog[i - 1].resp = "h500" => reqlog[i].verify
    /\ \A i \in 1..Len(cs_sent) : cs_sent[i].verify

\* the second call of the client: a retry after a 500, a TLS failure and
\* the unverified fallback, with a console request sent as well
C39_Witness ==
    /\ calls = 2
    /\ Len(reqlog) = 3
    /\ reqlog[1] = [verify |-> TRUE, resp |-> "h500"]
    /\ reqlog[2] = [verify |-> TRUE, resp |-> "ssl"]
    /\ reqlog[3] = [verify |-> FALSE, resp |-> "ok"]
    /\ Len(cs_sent) = 2


\* the objects of the listings the run has gone through (first run: a
\* source is known once its listing has succeeded)
ListedSoFar ==
    KnownObjects(src_objects, IF mg_pc = "done" THEN Len(src_objects) ELSE source_idx - 1)
        + (IF mg_pc = "object" THEN obj_idx - 1
           ELSE IF Importing \/ mg_pc = "export" THEN obj_idx
           ELSE 0)

\* C35: in a streaming run every listed object is counted in exactly one
\* of success, skipped and failed, so the summary's total is their sum,
\* whatever fails.
C35_StreamingTotalIsSumOfOutcomes ==
    (streaming /\ run > 0) =>
        /\ (mg_pc \in {"start", "source", "object", "done"}) => counts.total = Handled
        /\ run = 1 => counts.total = ListedSoFar
        /\ (last # NoLast /\ mg_pc = "object") => last.counted \in {"success", "skipped", "failed"}

\* a summary of two objects, one of them failed
C35_Witness ==
    /\ streaming
    /\ mg_pc = "done"
    /\ ~clean
    /\ counts.total = 2
    /\ counts.failed = 1
    /\ counts.success + counts.skipped = 1


\* C36: in a streaming run with skip_existing no create_dataset,
\* create_document_by_text or import_app_dsl request is issued for a name
\* that was in the target when the run started, the run whose first target
\* listing failed included.
C36_NoWriteForNameInTargetAtStart ==
    (streaming /\ skip_existing /\ run > 0) =>
        \A n \in tgt0 : n \notin wrote /\ created[n] = 0

\* the same, as long as no request of the run has failed
NoWriteForNameInTargetWhileNoRequestFailed ==
    (streaming /\ skip_existing /\ run > 0 /\ clean) =>
        \A n \in tgt0 : n \notin wrote /\ created[n] = 0


\* the step that sends a document and fails
DocumentFails == mg_pc = "imp_docs" /\ last_doc' # last_doc /\ last_doc'.raised

\* the step in which the orchestrator counts the dataset a success
CountedSuccess == mg_pc = "imp_docs" /\ counts'.success = counts.success + 1

\* C37: a failed document creation leaves the remaining documents of the
\* dataset to be attempted, and the dataset is counted a success only if
\* every one of its documents with content was created.
C37_SuccessOnlyIfEveryDocumentCreated ==
    [][/\ DocumentFails => (mg_pc' = "imp_docs" /\ idx' = idx + 1)
       /\ CountedSuccess => success_count = export_data.docs]_vars

\* the first half alone: the loop goes on after a failed document
FailedDocumentDoesNotStopTheLoop ==
    [][DocumentFails => (mg_pc' = "imp_docs" /\ idx' = idx + 1)]_vars


-----------------------------------------------------------------------------
(* Claims about import-from-backup (SpecBackup)                            *)

\* C40: in import-from-backup a file whose dataset was imported into the
\* target is counted as success, a file whose dataset was skipped because
\* it exists is counted as skipped, and success + skipped + failed is the
\* number of backup files.
C40_BackupCountsImportedAsSuccess ==
    /\ last.why = "imported" => last.counted = "success"
    /\ last.why = "exists_skip" => last.counted = "skipped"
    /\ mg_pc = "bk_done" => Handled = Len(exported_data)

\* what the loop does count: every file once, never as a success
BackupCountsEveryFileOnceNeverAsSuccess ==
    /\ last.why \in {"imported", "exists_skip"} => last.counted = "skipped"
    /\ counts.success = 0
    /\ Handled = counts.total
    /\ mg_pc = "bk_done" => Handled = Len(exported_data)

====
